---- MODULE Spec2Model ----
(***************************************************************************)
(* A model of the UCAS physics-lab report generator: the history store,    *)
(* the task-status map, the report content generator, the LaTeX compiler   *)
(* invoker, the plotting-code runner and the template splicer.             *)
(*                                                                         *)
(* Each component has its own specification (SpecHistory, SpecTask, ...):  *)
(* its Init puts the other components' variables in their idle value and   *)
(* its Next leaves them unchanged.                                         *)
(***************************************************************************)
EXTENDS Integers, Sequences, FiniteSets, TLC

VARIABLES
    \* ---- history store (utils/history_manager.py) ----
    history,      \* HistoryManager.history: the list of records, newest first
    historyFile,  \* the content of history.json (the list last saved)
    dirs,         \* the working directories that exist on disk
    now,          \* datetime.now(), a counter
    hops,         \* number of history operations made so far
    hlast         \* the last history operation: its arguments, pre-state and result

histVars == <<history, historyFile, dirs, now, hops, hlast>>

VARIABLES
    \* ---- task-status map and generation worker (app.py) ----
    task,         \* task_manager.tasks[task_id]: the status record, or NoTask
    lock,         \* the holder of task_manager.lock: "none", "worker" or "poller"
    wstage,       \* the stage run_generation_task is in
    wat,          \* the worker's place in the stage: 0 about to take the lock,
                  \* k >= 1 holding it before statement k, AtWork after the call
    werr,         \* the error the worker is about to report with fail_task
    opts,         \* the request: whether a guide was uploaded, an API is configured
    wlog,         \* what the worker did so far, in order: the TaskManager calls,
                  \* the backend requests and their outcomes, the compile's
                  \* outcome, add_record
    ppc,          \* the place of get_task_status: "idle", "locked", "got"
    pref,         \* what get_task returned: "none", "missing" or "ref"
    pobs,         \* the response of the last finished poll
    polls         \* number of polls finished

taskVars == <<task, lock, wstage, wat, werr, opts, wlog, ppc, pref, pobs, polls>>

VARIABLES
    \* ---- LaTeX compiler invoker (utils/latex_compiler.py) and its callers ----
    cpc,          \* the place of compile: "idle", "run", "running", "check", "except"
    ccall,        \* the compile call in progress or last made: its number and caller
    cstarted,     \* subprocess.run invocations of this call so far
    cruns,        \* how the runs of this call ended, in order
    cchecked,     \* this call has looked for the PDF (line 82)
    pdfBy,        \* 0 when work_dir/main.pdf does not exist, else the number of
                  \* the compile call whose run wrote it
    cret,         \* what the last compile call returned
    sess          \* sessions[session_id]: whether tex_file is set, and pdf_file

compVars == <<cpc, ccall, cstarted, cruns, cchecked, pdfBy, cret, sess>>

VARIABLES
    \* ---- plotting-code runner (utils/python_executor.py) ----
    epc,          \* the place of execute_plotting_code: "idle", "running"
    ecode,        \* the plot code argument
    edata,        \* the data code argument (<<>> for None or an empty string)
    escript,      \* the content of work_dir/plot_script.py
    etimeout,     \* the timeout the subprocess was started with
    figDir,       \* the session's Fig directory: file -> 0 when absent, else the
                  \* number of the run that wrote it
    eruns,        \* number of execute_plotting_code calls started for the session
    eret          \* what the last call returned, and what its run wrote

execVars == <<epc, ecode, edata, escript, etimeout, figDir, eruns, eret>>

VARIABLES
    \* ---- report content generator (utils/report_generator.py) ----
    gpc,          \* the place of generate_report_content: "idle", "call",
                  \* "wait", "clean", "join", "done", "raised"
    gpart,        \* the part (1, 2, 3) being generated
    gimages,      \* the data_sheet_images argument
    glog,         \* the backend calls, their returns and the cleanings, in order
    gparts,       \* part1_content, part2_content, part3_content so far
    gresult       \* the returned content

genVars == <<gpc, gpart, gimages, glog, gparts, gresult>>

VARIABLES
    \* ---- template splicer (app.py, lines 333-346 and 558-668) ----
    spc,          \* the next step: "integrate", "figures", "appendix", "done"
    tmpl,         \* the content processor.process returned
    ai,           \* latex_content (<<>> when there is none)
    nfigs,        \* number of generated figures
    ndata,        \* number of data-sheet images
    nprev,        \* number of preview-report images
    afterInt,     \* the content after integrate_ai_content
    preApp,       \* the content handed to add_appendix_images
    content       \* the content

spliceVars == <<spc, tmpl, ai, nfigs, ndata, nprev, afterInt, preApp, content>>

VARIABLES
    \* ---- template processor (utils/template_processor.py) ----
    tpc,          \* the place: "idle", "new" (before __init__), "ready", "done"
    tfile,        \* the template file: whether it exists, and its text
    tcontent,     \* self.template_content (<<>> for None and for an empty text)
    tdata,        \* the placeholder entries of the data dict: key -> value
    tsections,    \* data['sections']: whether the key is there, and its
                  \* (name, content) items in order
    tret          \* what process did: the error it raised, or the content

procVars == <<tpc, tfile, tcontent, tdata, tsections, tret>>

VARIABLES
    \* ---- plotting-code extractor (utils/python_executor.py, lines 146-191) ----
    xpc,          \* the place: "idle", "new", "extracted", "done"
    xresp,        \* the response of the AI backend
    xblocks,      \* code_blocks
    xret,         \* the returned (data_code, plot_code)
    xscript       \* the script the runner makes of them (<<>> when it is not run)

extrVars == <<xpc, xresp, xblocks, xret, xscript>>

vars == <<histVars, taskVars, compVars, execVars, genVars, spliceVars, procVars,
          extrVars>>

\* what the actions of one component leave unchanged
notHistVars == <<taskVars, compVars, execVars, genVars, spliceVars, procVars, extrVars>>
notTaskVars == <<histVars, compVars, execVars, genVars, spliceVars, procVars, extrVars>>
notCompVars == <<histVars, taskVars, execVars, genVars, spliceVars, procVars, extrVars>>
notExecVars == <<histVars, taskVars, compVars, genVars, spliceVars, procVars, extrVars>>
notGenVars == <<histVars, taskVars, compVars, execVars, spliceVars, procVars, extrVars>>
notSpliceVars == <<histVars, taskVars, compVars, execVars, genVars, procVars, extrVars>>
notProcVars == <<histVars, taskVars, compVars, execVars, genVars, spliceVars, extrVars>>
notExtrVars == <<histVars, taskVars, compVars, execVars, genVars, spliceVars, procVars>>

(***************************************************************************)
(* The idle state of each component                                        *)
(***************************************************************************)
HistoryIdle ==
    /\ history = <<>>
    /\ historyFile = <<>>
    /\ dirs = {}
    /\ now = 1
    /\ hops = 0
    /\ hlast = [op |-> "none"]

\* no entry in task_manager.tasks
NoTask == [status |-> "absent"]

\* no poll has been answered yet
NoResponse == [status |-> "none"]

\* the 404 response of get_task_status
NotFound == [status |-> "404"]

\* the worker's place after the TaskManager call of its stage has returned
AtWork == 0 - 1

TaskIdle ==
    /\ task = NoTask
    /\ lock = "none"
    /\ wstage = "idle"
    /\ wat = 0
    /\ werr = "none"
    /\ opts = [guide |-> FALSE, api |-> FALSE]
    /\ wlog = <<>>
    /\ ppc = "idle"
    /\ pref = "none"
    /\ pobs = NoResponse
    /\ polls = 0

\* no compile call has returned yet
NoReturn == [success |-> FALSE, pdf |-> "none", call |-> 0]

CompileIdle ==
    /\ cpc = "idle"
    /\ ccall = [n |-> 0, caller |-> "none"]
    /\ cstarted = 0
    /\ cruns = <<>>
    /\ cchecked = FALSE
    /\ pdfBy = 0
    /\ cret = NoReturn
    /\ sess = [tex |-> FALSE, pdf |-> "none"]

\* execute_plotting_code has not returned yet
NoExecReturn ==
    [success |-> FALSE, images |-> <<>>, timeout |-> FALSE, run |-> 0, wrote |-> {}]

ExecIdle ==
    /\ epc = "idle"
    /\ ecode = <<>>
    /\ edata = <<>>
    /\ escript = <<>>
    /\ etimeout = 0
    /\ figDir = <<>>
    /\ eruns = 0
    /\ eret = NoExecReturn

GenIdle ==
    /\ gpc = "idle"
    /\ gpart = 0
    /\ gimages = <<>>
    /\ glog = <<>>
    /\ gparts = <<>>
    /\ gresult = <<>>

SpliceIdle ==
    /\ spc = "done"
    /\ tmpl = <<>>
    /\ ai = <<>>
    /\ nfigs = 0
    /\ ndata = 0
    /\ nprev = 0
    /\ afterInt = <<>>
    /\ preApp = <<>>
    /\ content = <<>>

\* process has not been called
NoProcessReturn == [raised |-> "none", content |-> <<>>]

ProcIdle ==
    /\ tpc = "idle"
    /\ tfile = [exists |-> FALSE, text |-> <<>>]
    /\ tcontent = <<>>
    /\ tdata = <<>>
    /\ tsections = [given |-> FALSE, items |-> <<>>]
    /\ tret = NoProcessReturn

\* a code that is None
NoCode == [none |-> TRUE, code |-> <<>>]

ExtrIdle ==
    /\ xpc = "idle"
    /\ xresp = <<>>
    /\ xblocks = <<>>
    /\ xret = [data |-> NoCode, plot |-> NoCode]
    /\ xscript = <<>>

NotHistIdle == TaskIdle /\ CompileIdle /\ ExecIdle /\ GenIdle /\ SpliceIdle /\ ProcIdle /\ ExtrIdle
NotTaskIdle == HistoryIdle /\ CompileIdle /\ ExecIdle /\ GenIdle /\ SpliceIdle /\ ProcIdle /\ ExtrIdle
NotCompIdle == HistoryIdle /\ TaskIdle /\ ExecIdle /\ GenIdle /\ SpliceIdle /\ ProcIdle /\ ExtrIdle
NotExecIdle == HistoryIdle /\ TaskIdle /\ CompileIdle /\ GenIdle /\ SpliceIdle /\ ProcIdle /\ ExtrIdle
NotGenIdle == HistoryIdle /\ TaskIdle /\ CompileIdle /\ ExecIdle /\ SpliceIdle /\ ProcIdle /\ ExtrIdle
NotSpliceIdle == HistoryIdle /\ TaskIdle /\ CompileIdle /\ ExecIdle /\ GenIdle /\ ProcIdle /\ ExtrIdle
NotProcIdle == HistoryIdle /\ TaskIdle /\ CompileIdle /\ ExecIdle /\ GenIdle /\ SpliceIdle /\ ExtrIdle
NotExtrIdle == HistoryIdle /\ TaskIdle /\ CompileIdle /\ ExecIdle /\ GenIdle /\ SpliceIdle /\ ProcIdle

(***************************************************************************)
(* Sequence helpers                                                        *)
(***************************************************************************)
Range(s) == {s[i] : i \in 1..Len(s)}

Min(S) == CHOOSE x \in S : \A y \in S : x <= y

\* s[:n]
Take(s, n) == SubSeq(s, 1, IF n < Len(s) THEN n ELSE Len(s))

\* s[n:]  (0-based n as in Python)
Drop(s, n) == SubSeq(s, n + 1, Len(s))

(***************************************************************************)
(* History store                                                           *)
(***************************************************************************)
\* the cap of add_record
MaxHistory == 100

\* ids that the history can be started with are 1..MaxHistory; NewIds further
\* ids are available for sessions that are not in the history initially
NewIds == 2

\* number of history operations in a run
MaxHistoryOps == 3

\* the session ids the operations are called with: the newest and the oldest of
\* the initial records, one from the middle, and the new ones
SessionIds == {1, 2, MaxHistory} \cup ((MaxHistory + 1)..(MaxHistory + NewIds))

\* run_generation_task: work_dir = OUTPUT_FOLDER/<session_id>, and the tex file is
\* work_dir/main.tex, so that a record's work_dir is named by its session id
WorkDirOf(session_id) == session_id

\* every caller passes the session's working directory as output_dir, and the
\* tex file is work_dir/main.tex: final_pdf and pdf_path are the same file, so
\* that no copy is made (line 87)
FinalPdf == "work_dir/main.pdf"

\* the experiment name and the student name of a request, as sequences of
\* letters ("A" and "B" are the capitals of "a" and "b")
NameChoices ==
    <<[experiment_name |-> <<"A", "b">>, student_name |-> <<"B", "a">>],
      [experiment_name |-> <<"b", "b">>, student_name |-> <<"a">>]>>

\* the names a session's report is generated with
NamesOf(session_id) == NameChoices[(session_id % Len(NameChoices)) + 1]

\* the history that holds the records of sessions n, n-1, .., 1 (newest first),
\* the record of session i created at time i - n (all before time 1)
InitialHistory(n) ==
    [i \in 1..n |-> [id |-> n + 1 - i,
                     experiment_name |-> NamesOf(n + 1 - i).experiment_name,
                     student_name |-> NamesOf(n + 1 - i).student_name,
                     created_at |-> 1 - i,
                     work_dir |-> WorkDirOf(n + 1 - i)]]

\* the lengths of the histories a run can start with
InitialLengths == {0, MaxHistory - 1, MaxHistory}

\* a lookup that finds no record
ExistingIdxNever(h, session_id) == 0

\* for i, r in enumerate(self.history): if r['id'] == session_id: ... break
\* (0 when no record has the id)
ExistingIdx(h, session_id) ==
    LET hits == {i \in 1..Len(h) : h[i].id = session_id}
    IN  IF hits = {} THEN 0 ELSE Min(hits)

\* the record add_record builds (lines 60-69): it has no updated_at key
NewRecord(session_id, t, names) ==
    [id |-> session_id,
     experiment_name |-> names.experiment_name,
     student_name |-> names.student_name,
     created_at |-> t,
     work_dir |-> WorkDirOf(session_id)]

\* an update that moves the record to the front
UpsertedToFront(h, session_id, t, names) ==
    LET idx == ExistingIdx(h, session_id)
        rec == NewRecord(session_id, t, names)
    IN  IF idx # 0
        THEN <<[rec EXCEPT !.created_at = h[idx].created_at] @@ [updated_at |-> t]>>
                 \o Take(h, idx - 1) \o Drop(h, idx)
        ELSE <<rec>> \o h

\* add_record, lines 71-83: replace the record in place, or insert at the front
Upserted(h, session_id, t, names) ==
    LET idx == ExistingIdx(h, session_id)
        rec == NewRecord(session_id, t, names)
    IN  IF idx # 0
        THEN [h EXCEPT ![idx] = [rec EXCEPT !.created_at = h[idx].created_at]
                                    @@ [updated_at |-> t]]
        ELSE <<rec>> \o h

\* a slip in the slice bound: the oldest kept record is cleaned up as well
EvictedOffByOne(h) == Drop(h, MaxHistory - 1)

\* add_record, line 88: self.history[100:], the records to evict
Evicted(h) == Drop(h, MaxHistory)

\* a slip in the slice bound: one record too many is kept
TruncatedOffByOne(h) == Take(h, MaxHistory + 1)

\* add_record, line 90: self.history[:100]
Truncated(h) == Take(h, MaxHistory)

\* _cleanup_record on each record of recs: the directory is removed when it
\* exists and shutil.rmtree does not raise; failing is the set of directories
\* whose rmtree raises (the error is swallowed)
CleanedUp(d, recs, failing) ==
    d \ {r.work_dir : r \in {x \in Range(recs) : x.work_dir \notin failing}}

\* the members of a record for the keys every record has, in the order
\* add_record puts them into the dict (lines 60-69): key, value, key, value, ..
BaseMembers(record) ==
    <<"id", record.id,
      "experiment_name", record.experiment_name,
      "student_name", record.student_name,
      "created_at", record.created_at,
      "work_dir", record.work_dir>>

\* a dump that leaves the updated_at member out
JsonDumpWithoutUpdated(h) == [i \in 1..Len(h) |-> BaseMembers(h[i])]

\* _save_history, lines 37-41: json.dump writes the list as an array of
\* objects, each object the members of the dict (key, value, key, value, ..)
\* in its key order
JsonDump(h) ==
    [i \in 1..Len(h) |->
        BaseMembers(h[i])
        \o (IF "updated_at" \in DOMAIN h[i]
            THEN <<"updated_at", h[i].updated_at>>
            ELSE <<>>)]

\* json.load of an object: a dict of its members (json.dump of a dict writes
\* no key twice)
JsonObject(members) ==
    LET places == 1..(Len(members) \div 2)
    IN  [k \in {members[2 * n - 1] : n \in places} |->
            members[2 * (CHOOSE n \in places : members[2 * n - 1] = k)]]

\* _load_history, lines 27-35: json.load of the file (an absent file gives the
\* empty list)
JsonLoad(file) == [i \in 1..Len(file) |-> JsonObject(file[i])]

HistoryInit ==
    /\ NotHistIdle
    /\ \E n \in InitialLengths :
          /\ history = InitialHistory(n)
          /\ dirs = {WorkDirOf(i) : i \in 1..n}
    /\ historyFile = JsonDump(history)
    /\ now = 1
    /\ hops = 0
    /\ hlast = [op |-> "none"]

\* HistoryManager.add_record(session_id, ...), called by run_generation_task
\* after it created the working directory and compiled in it
AddRecord(session_id, names) ==
    /\ hops < MaxHistoryOps
    /\ LET h1 == Upserted(history, session_id, now, names)
           d1 == dirs \cup {WorkDirOf(session_id)}
           old == IF Len(h1) > MaxHistory THEN Evicted(h1) ELSE <<>>
           h2 == IF Len(h1) > MaxHistory THEN Truncated(h1) ELSE h1
       IN  \E failing \in SUBSET {r.work_dir : r \in Range(old)} :
              /\ history' = h2
              /\ dirs' = CleanedUp(d1, old, failing)
              /\ historyFile' = JsonDump(h2)
              /\ hlast' = [op |-> "add", id |-> session_id, before |-> history,
                           dirsBefore |-> d1, failing |-> failing, ret |-> TRUE]
    /\ now' = now + 1
    /\ hops' = hops + 1
    /\ UNCHANGED notHistVars

\* a removal that drops the records behind the one it removes as well
PoppedWithTail(h, idx) == Take(h, idx - 1)

\* delete_record, line 142: self.history.pop(i)
Popped(h, idx) == Take(h, idx - 1) \o Drop(h, idx)

\* HistoryManager.delete_record(session_id)
DeleteRecord(session_id) ==
    /\ hops < MaxHistoryOps
    /\ LET idx == ExistingIdx(history, session_id)
       IN  IF idx # 0
           THEN \E failing \in SUBSET {history[idx].work_dir} :
                   /\ dirs' = CleanedUp(dirs, <<history[idx]>>, failing)
                   /\ history' = Popped(history, idx)
                   /\ historyFile' = JsonDump(history')
                   /\ hlast' = [op |-> "delete", id |-> session_id, before |-> history,
                                dirsBefore |-> dirs, fileBefore |-> historyFile,
                                failing |-> failing, ret |-> TRUE]
           ELSE /\ UNCHANGED <<history, historyFile, dirs>>
                /\ hlast' = [op |-> "delete", id |-> session_id, before |-> history,
                             dirsBefore |-> dirs, fileBefore |-> historyFile,
                             failing |-> {}, ret |-> FALSE]
    /\ hops' = hops + 1
    /\ UNCHANGED now
    /\ UNCHANGED notHistVars

\* the working directory of a session is removed from outside the program,
\* its PDF with it
RemoveOutput(session_id) ==
    /\ hops < MaxHistoryOps
    /\ WorkDirOf(session_id) \in dirs
    /\ dirs' = dirs \ {WorkDirOf(session_id)}
    /\ hlast' = [op |-> "remove_output", id |-> session_id]
    /\ hops' = hops + 1
    /\ UNCHANGED <<history, historyFile, now>>
    /\ UNCHANGED notHistVars

\* os.path.exists(record.get('pdf_path', '')): the PDF is work_dir/main.pdf
\* (app.py lines 354-374), written by the compile before add_record is called;
\* it exists as long as the working directory does
PdfExists(record, d) == record.work_dir \in d

\* get_history, lines 106-110: the records whose PDF exists, in list order
ValidRecords(h, d) == SelectSeq(h, LAMBDA r : PdfExists(r, d))

\* the slice seq[:limit] of Python: a negative limit counts from the end
SliceTo(seq, limit) ==
    IF limit >= 0 THEN Take(seq, Min({limit, Len(seq)}))
    ELSE IF Len(seq) + limit > 0 THEN Take(seq, Len(seq) + limit)
    ELSE <<>>

\* the limits get_history is called with: the route passes the integer of the
\* query string, 20 by default (app.py lines 678-679)
Limits == {0 - 1, 0, 1, 20}

\* str.lower() of a letter
LowerLetter(c) ==
    CASE c = "A" -> "a"
      [] c = "B" -> "b"
      [] OTHER   -> c

\* str.lower()
Lower(str) == [i \in 1..Len(str) |-> LowerLetter(str[i])]

\* q in str, for strings
Contains(str, q) ==
    \E i \in 0..(Len(str) - Len(q)) : SubSeq(str, i + 1, i + Len(q)) = q

\* search, lines 166-173
Matches(record, query) ==
    \/ Contains(Lower(record.experiment_name), Lower(query))
    \/ Contains(Lower(record.student_name), Lower(query))

\* the queries search is called with
Queries == {<<>>, <<"A", "B">>, <<"c">>}

\* HistoryManager.get_history(limit)
GetHistory(limit) ==
    /\ hlast' = [op |-> "get_history", limit |-> limit,
                 ret |-> SliceTo(ValidRecords(history, dirs), limit)]
    /\ UNCHANGED <<history, historyFile, dirs, now, hops>>
    /\ UNCHANGED notHistVars

\* HistoryManager.search(query)
Search(query) ==
    /\ hlast' = [op |-> "search", query |-> query,
                 ret |-> SelectSeq(history,
                                   LAMBDA r : Matches(r, query) /\ PdfExists(r, dirs))]
    /\ UNCHANGED <<history, historyFile, dirs, now, hops>>
    /\ UNCHANGED notHistVars

HistoryNext ==
    \/ \E s \in SessionIds : AddRecord(s, NamesOf(s))
    \/ \E s \in SessionIds : DeleteRecord(s)

SpecHistory == HistoryInit /\ [][HistoryNext]_vars

\* the history store with its queries, and with working directories that are
\* removed from outside
HistoryQueryNext ==
    \/ \E s \in SessionIds : AddRecord(s, NamesOf(s))
    \/ \E s \in SessionIds : DeleteRecord(s)
    \/ \E s \in {1, MaxHistory + 1} : RemoveOutput(s)
    \/ \E limit \in Limits : GetHistory(limit)
    \/ \E query \in Queries : Search(query)

SpecHistoryQueries == HistoryInit /\ [][HistoryQueryNext]_vars

(***************************************************************************)
(* Claims about the history store                                          *)
(***************************************************************************)

\* C1: starting from a history of at most 100 records, after any sequence of
\* add_record and delete_record calls the history holds at most 100 records.
C1_HistoryCapped == Len(history) <= MaxHistory

\* C1 witness: add_record has just added a new id to a full history
C1_Witness ==
    /\ hlast.op = "add"
    /\ Len(hlast.before) = MaxHistory
    /\ ExistingIdx(hlast.before, hlast.id) = 0
    /\ Len(history) = MaxHistory

\* the case of C2: add_record was called with an id that is not in the
\* history, and the history held MaxHistory records
C2_Case ==
    /\ hlast.op = "add"
    /\ Len(hlast.before) = MaxHistory
    /\ ExistingIdx(hlast.before, hlast.id) = 0

\* the new record is at the front, and exactly the last record is dropped
C2_Records ==
    /\ history[1].id = hlast.id
    /\ history = <<history[1]>> \o Take(hlast.before, MaxHistory - 1)
    /\ JsonLoad(historyFile) = history

\* C2 as stated: when add_record adds a record with a new id to a history of 100
\* records, the new record is at the front, exactly the record at the end of
\* the list is dropped, the dropped record's working directory is deleted, and
\* no other record or working directory is removed.
C2_Original ==
    C2_Case =>
        /\ C2_Records
        /\ hlast.before[MaxHistory].work_dir \notin dirs
        /\ dirs = hlast.dirsBefore \ {hlast.before[MaxHistory].work_dir}

\* C2 as amended: ... the dropped record's working directory is deleted unless
\* its removal raises an error (which _cleanup_record swallows: the directory
\* then stays on disk while its record is dropped all the same), and no other
\* record or working directory is removed.
C2_Amended ==
    C2_Case =>
        LET dropped == hlast.before[MaxHistory].work_dir
        IN  /\ C2_Records
            /\ dropped \notin hlast.failing =>
                    dirs = hlast.dirsBefore \ {dropped}
            /\ dropped \in hlast.failing => dirs = hlast.dirsBefore

\* C2 witness: a new id was added to a full history, and the evicted record's
\* directory, which existed, was removed
C2_Witness ==
    /\ C2_Case
    /\ hlast.before[MaxHistory].work_dir \in hlast.dirsBefore
    /\ hlast.before[MaxHistory].work_dir \notin dirs
    /\ history[1].id = hlast.id

\* C21: starting from a history whose records have distinct ids, after any
\* sequence of add_record and delete_record calls made one at a time no two
\* records in the history share an id.
C21_DistinctIds ==
    Cardinality({history[i].id : i \in 1..Len(history)}) = Len(history)

\* C21 witness: add_record was called on a full history with an id that was
\* in it, after an earlier call
C21_Witness ==
    /\ hlast.op = "add"
    /\ hops >= 2
    /\ ExistingIdx(hlast.before, hlast.id) # 0
    /\ Len(history) = MaxHistory

\* the case of C22: add_record was called with an id that is in the history
C22_Case ==
    /\ hlast.op = "add"
    /\ ExistingIdx(hlast.before, hlast.id) # 0

\* C22: add_record for an id that is already in the history replaces that
\* record at its existing position, keeps the record's original created_at,
\* sets updated_at, and leaves the number and the order of the records
\* unchanged (no record is evicted and no working directory is deleted).
C22_UpdateInPlace ==
    C22_Case =>
        LET idx == ExistingIdx(hlast.before, hlast.id)
        IN  /\ Len(history) = Len(hlast.before)
            /\ \A i \in 1..Len(history) : history[i].id = hlast.before[i].id
            /\ \A i \in 1..Len(history) : i # idx => history[i] = hlast.before[i]
            /\ history[idx].created_at = hlast.before[idx].created_at
            /\ history[idx].updated_at = now - 1
            /\ history[idx].experiment_name = NamesOf(hlast.id).experiment_name
            /\ dirs = hlast.dirsBefore

\* C22 witness: the oldest record of a full history was updated, after a
\* record had been added
C22_Witness ==
    /\ C22_Case
    /\ Len(history) = MaxHistory
    /\ ExistingIdx(history, hlast.id) = MaxHistory
    /\ history[MaxHistory].created_at < 1
    /\ history[1].created_at >= 1

\* what C23 says but for the working directory of the removed record
C23_Records ==
    LET idx == ExistingIdx(hlast.before, hlast.id)
    IN  /\ hlast.ret = (idx # 0)
        /\ hlast.ret =>
              /\ Len(history) = Len(hlast.before) - 1
              /\ \A i \in 1..Len(history) :
                    history[i] = hlast.before[IF i < idx THEN i ELSE i + 1]
              /\ ExistingIdx(history, hlast.id) = 0
        /\ ~hlast.ret =>
              /\ history = hlast.before
              /\ historyFile = hlast.fileBefore
              /\ dirs = hlast.dirsBefore

GetHistoryResult ==
    /\ \A i \in 1..Len(hlast.ret) : PdfExists(hlast.ret[i], dirs)
    /\ hlast.ret = Take(ValidRecords(history, dirs), Len(hlast.ret))
    /\ \A i, j \in 1..Len(hlast.ret) :
          i < j => hlast.ret[i].created_at >= hlast.ret[j].created_at

\* what C15 says of the result of search
SearchResult ==
    \A i \in 1..Len(hlast.ret) :
        /\ PdfExists(hlast.ret[i], dirs)
        /\ \/ Contains(Lower(hlast.ret[i].experiment_name), Lower(hlast.query))
           \/ Contains(Lower(hlast.ret[i].student_name), Lower(hlast.query))

\* C15 but for the count of a get_history with a negative limit
C15_ForNonNegativeLimit ==
    /\ hlast.op = "get_history" =>
          /\ GetHistoryResult
          /\ hlast.limit >= 0 => Len(hlast.ret) <= hlast.limit
    /\ hlast.op = "search" => SearchResult

\* C15: neither get_history nor search ever returns a record whose PDF file no
\* longer exists; get_history returns at most `limit` records in stored
\* (newest-first) order, and search returns only records whose experiment name
\* or student name contains the query, compared case-insensitively.  A limit
\* below 0 is read as one that allows no record.
C15_Original ==
    /\ hlast.op = "get_history" =>
          /\ GetHistoryResult
          /\ Len(hlast.ret) <= (IF hlast.limit >= 0 THEN hlast.limit ELSE 0)
    /\ hlast.op = "search" => SearchResult

(***************************************************************************)
(* Task-status map (TaskManager) and the generation worker                 *)
(***************************************************************************)
\* number of status polls in a run
MaxPolls == 2

\* create_task, lines 165-173: the record of a new task
NewTask ==
    [status |-> "pending", progress |-> 0, message |-> "created",
     result |-> "none", error |-> "none"]

\* the progress value run_generation_task reports when it enters a stage
StageProgress(stage) ==
    CASE stage = "init"     -> 5
      [] stage = "template" -> 10
      [] stage = "files"    -> 15
      [] stage = "guide"    -> 20
      [] stage = "content"  -> 30
      [] stage = "plotcode" -> 70
      [] stage = "plot"     -> 80
      [] stage = "splice"   -> 85
      [] stage = "compile"  -> 90

ProgressStages ==
    {"init", "template", "files", "guide", "content", "plotcode", "plot",
     "splice", "compile"}

\* the TaskManager method the worker calls in a stage
StageMethod(stage) ==
    IF stage \in ProgressStages THEN "update_progress"
    ELSE IF stage = "complete" THEN "complete_task"
    ELSE "fail_task"

\* the number of assignments of each method's body
Statements(method) ==
    CASE method = "update_progress" -> 3
      [] method = "complete_task"   -> 4
      [] method = "fail_task"       -> 3

\* update_progress, lines 179-182: statement k of the body
UpdateProgressStmt(t, k, progress) ==
    CASE k = 1 -> [t EXCEPT !.progress = progress]
      [] k = 2 -> [t EXCEPT !.status = "processing"]
      [] k = 3 -> [t EXCEPT !.message = "progress"]

\* the progress is set before the status
CompleteTaskStmtProgressFirst(t, k) ==
    CASE k = 1 -> [t EXCEPT !.progress = 100]
      [] k = 2 -> [t EXCEPT !.status = "completed"]
      [] k = 3 -> [t EXCEPT !.message = "done"]
      [] k = 4 -> [t EXCEPT !.result = "result"]

\* complete_task, lines 187-190: statement k of the body
CompleteTaskStmt(t, k) ==
    CASE k = 1 -> [t EXCEPT !.status = "completed"]
      [] k = 2 -> [t EXCEPT !.progress = 100]
      [] k = 3 -> [t EXCEPT !.message = "done"]
      [] k = 4 -> [t EXCEPT !.result = "result"]

\* fail_task, lines 195-197: statement k of the body
FailTaskStmt(t, k, error) ==
    CASE k = 1 -> [t EXCEPT !.status = "failed"]
      [] k = 2 -> [t EXCEPT !.message = error]
      [] k = 3 -> [t EXCEPT !.error = error]

\* a compile that succeeded is followed by complete_task at once
NextStageNoRecord(stage, o, plotCode, compiled) ==
    CASE stage = "init"     -> "template"
      [] stage = "template" -> "files"
      [] stage = "files"    -> IF o.guide THEN "guide" ELSE "content"
      [] stage = "guide"    -> "content"
      [] stage = "content"  -> IF o.api THEN "plotcode" ELSE "splice"
      [] stage = "plotcode" -> IF plotCode THEN "plot" ELSE "splice"
      [] stage = "plot"     -> "splice"
      [] stage = "splice"   -> "compile"
      [] stage = "compile"  -> IF compiled THEN "complete" ELSE "fail"
      [] stage = "record"   -> "complete"

\* the stage that follows a stage whose work went through
\* (plotCode: the plot response held plotting code; compiled: compile succeeded);
\* "record" is the stage of lines 360-381, which has no progress report
NextStage(stage, o, plotCode, compiled) ==
    CASE stage = "init"     -> "template"
      [] stage = "template" -> "files"
      [] stage = "files"    -> IF o.guide THEN "guide" ELSE "content"
      [] stage = "guide"    -> "content"
      [] stage = "content"  -> IF o.api THEN "plotcode" ELSE "splice"
      [] stage = "plotcode" -> IF plotCode THEN "plot" ELSE "splice"
      [] stage = "plot"     -> "splice"
      [] stage = "splice"   -> "compile"
      [] stage = "compile"  -> IF compiled THEN "record" ELSE "fail"
      [] stage = "record"   -> "complete"

\* the stage the worker is in after the TaskManager call of a stage: a finally
\* clause that reports a failure after complete_task as well
StageAfterCallFinally(stage) ==
    IF stage \in ProgressStages THEN stage
    ELSE IF stage = "complete" THEN "fail" ELSE "done"

\* the stage the worker is in after the TaskManager call of a stage:
\* complete_task (line 383) and fail_task (lines 390, 395) are the last
\* statements of their paths, run_generation_task returns after them
StageAfterCall(stage) ==
    IF stage \in ProgressStages THEN stage ELSE "done"

\* an exception that is not handled ends the thread
OnExceptionUncaught(stage) == "done"

\* except Exception, lines 392-395: whatever stage raised, fail_task is called
OnException(stage) == "fail"

\* the backend requests of a stage, in order: generate_report_content makes
\* the three content calls (app.py line 277, report_generator.py lines 226, 233,
\* 242), line 290 the plotting-code call; without an API there is none
Requests(stage, o) ==
    IF stage = "content" /\ o.api THEN <<"part1", "part2", "part3">>
    ELSE IF stage = "plotcode" THEN <<"plot">>
    ELSE <<>>

\* a backend that tries a second time
AttemptsWithRetry(request) == 2

\* the number of times a request is sent before its error is raised to the
\* caller: generate makes one requests.post and raise_for_status
\* (report_generator.py lines 113-114), and no caller catches the error
Attempts(request) == 1

Event(ev, what) == [ev |-> ev, what |-> what]

Count(log, e) == Cardinality({i \in 1..Len(log) : log[i] = e})

\* the requests of the stage that were not answered yet
Unanswered(stage, o, log) ==
    SelectSeq(Requests(stage, o), LAMBDA r : Count(log, Event("returned", r)) = 0)

\* what execute_plotting_code returns (python_executor.py lines 61-71): the
\* script ended with exit code 0, or with another one, both with the images
\* found in Fig, or it ran into the timeout, with no image
PlotRuns ==
    [outcome : {"ok", "failed"}, figures : {"some", "none"}]
        \cup {[outcome |-> "timeout", figures |-> "none"]}

\* a worker that gives up when the plot script did not succeed
AfterPlotRunChecked(outcome) == IF outcome = "ok" THEN "splice" ELSE "fail"

\* the stage after execute_plotting_code returned: line 300 stores the
\* success flag and nothing reads it before compile_latex overwrites it
\* (line 354)
AfterPlotRun(outcome) == "splice"

\* generated_figures: empty at line 266, the runner's list after line 300
GeneratedFigures(log) ==
    IF \E i \in 1..Len(log) : log[i] = Event("figures", "some")
    THEN "some" ELSE "none"

\* the session the task generates for
TaskSession == MaxHistory + 1

TaskInit ==
    /\ NotTaskIdle
    /\ task = NoTask
    /\ lock = "none"
    /\ wstage = "idle"
    /\ wat = 0
    /\ werr = "none"
    /\ opts \in [guide : BOOLEAN, api : BOOLEAN]
    /\ wlog = <<>>
    /\ ppc = "idle"
    /\ pref = "none"
    /\ pobs = NoResponse
    /\ polls = 0

\* generate_report, lines 457-479: create_task stores the new record under the
\* lock, then the worker thread is started
GenerateReport ==
    /\ task = NoTask
    /\ lock = "none"
    /\ task' = NewTask
    /\ wstage' = "init"
    /\ wat' = 0
    /\ UNCHANGED <<lock, werr, opts, wlog, ppc, pref, pobs, polls>>
    /\ UNCHANGED notTaskVars

\* the worker enters a TaskManager method: with self.lock
WorkerAcquire ==
    /\ wstage \notin {"idle", "done", "record"}
    /\ wat = 0
    /\ lock = "none"
    /\ lock' = "worker"
    /\ wat' = 1
    /\ wlog' = Append(wlog, Event("call", StageMethod(wstage)))
    /\ UNCHANGED <<task, wstage, werr, opts, ppc, pref, pobs, polls>>
    /\ UNCHANGED notTaskVars

\* one assignment of the method's body, made while the worker holds the lock
WorkerStatement ==
    /\ lock = "worker"
    /\ wat \in 1..Statements(StageMethod(wstage))
    /\ task # NoTask
    /\ task' = CASE StageMethod(wstage) = "update_progress" ->
                        UpdateProgressStmt(task, wat, StageProgress(wstage))
                 [] StageMethod(wstage) = "complete_task" ->
                        CompleteTaskStmt(task, wat)
                 [] StageMethod(wstage) = "fail_task" ->
                        FailTaskStmt(task, wat, werr)
    /\ wat' = wat + 1
    /\ UNCHANGED <<lock, wstage, werr, opts, wlog, ppc, pref, pobs, polls>>
    /\ UNCHANGED notTaskVars

\* the worker leaves the with block; after complete_task or fail_task
\* run_generation_task returns
WorkerRelease ==
    /\ lock = "worker"
    /\ wat = Statements(StageMethod(wstage)) + 1
    /\ lock' = "none"
    /\ wstage' = StageAfterCall(wstage)
    /\ wat' = IF wstage \in ProgressStages THEN AtWork ELSE 0
    /\ UNCHANGED <<task, werr, opts, wlog, ppc, pref, pobs, polls>>
    /\ UNCHANGED notTaskVars

\* one request to the AI backend: it returns, or it raises (a timeout, a
\* connection error, raise_for_status); an error is raised to
\* run_generation_task once the request was sent Attempts times
WorkerRequest ==
    /\ wat = AtWork
    /\ Unanswered(wstage, opts, wlog) # <<>>
    /\ LET r == Head(Unanswered(wstage, opts, wlog))
           sent == Append(wlog, Event("request", r))
           again == Count(sent, Event("request", r)) < Attempts(r)
       IN  \/ /\ wlog' = Append(sent, Event("returned", r))
              /\ UNCHANGED <<wstage, wat, werr>>
           \/ /\ wlog' = IF again THEN sent ELSE Append(sent, Event("raised", r))
              /\ wstage' = IF again THEN wstage ELSE OnException(wstage)
              /\ werr' = IF again THEN werr ELSE "exception"
              /\ wat' = IF again THEN wat ELSE 0
    /\ UNCHANGED <<task, lock, opts, ppc, pref, pobs, polls>>
    /\ UNCHANGED notTaskVars

\* the work of a stage goes through and the worker moves to the next stage;
\* the plot stage runs the script and keeps the figures the runner returned
\* (lines 299-302), the splice stage inserts them (lines 341-343); after the
\* compile stage the worker stores the session and the history record when
\* the compile succeeded (lines 360-381) and calls fail_task when it did not
\* (line 390)
WorkerWork ==
    /\ wat = AtWork
    /\ wstage \in ProgressStages
    /\ Unanswered(wstage, opts, wlog) = <<>>
    /\ \E plotCode \in BOOLEAN, compiled \in BOOLEAN, run \in PlotRuns :
          /\ wstage' = IF wstage = "plot" THEN AfterPlotRun(run.outcome)
                        ELSE NextStage(wstage, opts, plotCode, compiled)
          /\ wlog' = CASE wstage = "compile" ->
                            Append(wlog, Event("compile",
                                               IF compiled THEN "ok" ELSE "failed"))
                        [] wstage = "plot" ->
                            wlog \o <<Event("plot", run.outcome),
                                      Event("figures", run.figures)>>
                        [] wstage = "splice" ->
                            Append(wlog, Event("spliced", GeneratedFigures(wlog)))
                        [] OTHER -> wlog
    /\ werr' = IF wstage' = "fail"
               THEN (IF wstage = "compile" THEN "compile failed" ELSE "plot failed")
               ELSE werr
    /\ wat' = IF wstage' = "record" THEN AtWork ELSE 0
    /\ UNCHANGED <<task, lock, opts, ppc, pref, pobs, polls>>
    /\ UNCHANGED notTaskVars

\* lines 360-381: the session map gets the paths, then add_record puts the
\* record into the history and saves it; when the save raises, the record is
\* in the list all the same and the exception handler takes over
WorkerRecord ==
    /\ wat = AtWork
    /\ wstage = "record"
    /\ sess' = [tex |-> TRUE, pdf |-> FinalPdf]
    /\ LET h1 == Upserted(history, TaskSession, now, NamesOf(TaskSession))
           d1 == dirs \cup {WorkDirOf(TaskSession)}
           old == IF Len(h1) > MaxHistory THEN Evicted(h1) ELSE <<>>
           h2 == IF Len(h1) > MaxHistory THEN Truncated(h1) ELSE h1
       IN  /\ history' = h2
           /\ \E failing \in SUBSET {r.work_dir : r \in Range(old)} :
                 /\ dirs' = CleanedUp(d1, old, failing)
                 /\ hlast' = [op |-> "add", id |-> TaskSession, before |-> history,
                              dirsBefore |-> d1, failing |-> failing, ret |-> TRUE]
           /\ \E saved \in BOOLEAN :
                 /\ historyFile' = IF saved THEN JsonDump(h2) ELSE historyFile
                 /\ wlog' = Append(wlog, Event("add_record",
                                               IF saved THEN "saved" ELSE "raised"))
                 /\ wstage' = IF saved THEN NextStage(wstage, opts, FALSE, TRUE)
                              ELSE OnException(wstage)
                 /\ werr' = IF saved THEN werr ELSE "exception"
    /\ now' = now + 1
    /\ wat' = 0
    /\ UNCHANGED <<task, lock, opts, ppc, pref, pobs, polls>>
    /\ UNCHANGED <<hops, cpc, ccall, cstarted, cruns, cchecked, pdfBy, cret>>
    /\ UNCHANGED <<execVars, genVars, spliceVars, procVars, extrVars>>

\* the work of a stage raises: except Exception, lines 392-395
WorkerRaise ==
    /\ wat = AtWork
    /\ wstage \in ProgressStages
    /\ wstage' = OnException(wstage)
    /\ werr' = "exception"
    /\ wat' = 0
    /\ wlog' = Append(wlog, Event("raised", wstage))
    /\ UNCHANGED <<task, lock, opts, ppc, pref, pobs, polls>>
    /\ UNCHANGED notTaskVars

\* get_task_status calls task_manager.get_task: with self.lock
PollAcquire ==
    /\ ppc = "idle"
    /\ polls < MaxPolls
    /\ lock = "none"
    /\ lock' = "poller"
    /\ ppc' = "locked"
    /\ UNCHANGED <<task, wstage, wat, werr, opts, wlog, pref, pobs, polls>>
    /\ UNCHANGED notTaskVars

\* get_task, line 201: return self.tasks.get(task_id) hands out the record
\* itself (no copy), and the lock is released on the way out
PollGetTask ==
    /\ ppc = "locked"
    /\ lock = "poller"
    /\ pref' = IF task = NoTask THEN "missing" ELSE "ref"
    /\ lock' = "none"
    /\ ppc' = "got"
    /\ UNCHANGED <<task, wstage, wat, werr, opts, wlog, pobs, polls>>
    /\ UNCHANGED notTaskVars

\* get_task_status, lines 486-492: 404 when there is no task, else jsonify
\* reads the fields of the record get_task returned
PollRespond ==
    /\ ppc = "got"
    /\ pobs' = IF pref = "missing" THEN NotFound ELSE task
    /\ pref' = "none"
    /\ ppc' = "idle"
    /\ polls' = polls + 1
    /\ UNCHANGED <<task, lock, wstage, wat, werr, opts, wlog>>
    /\ UNCHANGED notTaskVars

TaskNext ==
    \/ GenerateReport
    \/ WorkerAcquire
    \/ WorkerStatement
    \/ WorkerRelease
    \/ WorkerRequest
    \/ WorkerWork
    \/ WorkerRecord
    \/ WorkerRaise
    \/ PollAcquire
    \/ PollGetTask
    \/ PollRespond

SpecTask == TaskInit /\ [][TaskNext]_vars

\* a step of the worker thread other than taking the lock
WorkerStep ==
    \/ WorkerStatement
    \/ WorkerRelease
    \/ WorkerRequest
    \/ WorkerWork
    \/ WorkerRecord
    \/ WorkerRaise

\* the worker thread (generate_report, lines 460-473) keeps running: each of
\* its steps is taken in the end, every external call of a stage returns or
\* raises, a poller that holds the lock leaves the with block of get_task
\* (line 200), and the worker gets the lock when it is free again and again
SpecTaskFair ==
    /\ SpecTask
    /\ WF_vars(WorkerStep)
    /\ SF_vars(WorkerAcquire)
    /\ WF_vars(PollGetTask)

(***************************************************************************)
(* Claims about the task-status map                                        *)
(***************************************************************************)

\* a response that shows a record in the middle of complete_task or fail_task
TornObservation ==
    /\ pobs.status \notin {"none", "404"}
    /\ \/ pobs.status = "completed" /\ pobs.result = "none"
       \/ pobs.status = "completed" /\ pobs.progress # 100
       \/ pobs.status = "failed" /\ pobs.error = "none"

\* the first half of C3: the poller reads the record it was handed only while it
\* holds the lock (it does not: get_task released the lock before jsonify reads)
C3_ReadsUnderLock == ppc = "got" /\ pref = "ref" => lock = "poller"

\* C3: every read and every write of the map and of a task's status record, by
\* the worker and by the status poller, happens while the TaskManager lock is
\* held, so a poll that runs concurrently with the worker never observes a
\* record in the middle of an update (such as status 'completed' with the
\* result still empty).  Stated on what a poll observes.
C3_Original == ~TornObservation

\* the requests a generation task sends to the AI backend
BackendRequests == {"part1", "part2", "part3", "plot"}

\* C14: no AI call is retried: within one generation task each of the four
\* backend requests (three content calls and one plotting-code call) is issued
\* at most once, and an error raised by any of them ends the task as failed
\* without another attempt.
C14_NoRetry ==
    /\ \A r \in BackendRequests : Count(wlog, Event("request", r)) <= 1
    /\ \A i \in 1..Len(wlog) :
          (wlog[i].ev = "raised" /\ wlog[i].what \in BackendRequests) =>
              /\ \A j \in (i + 1)..Len(wlog) : wlog[j].ev # "request"
              /\ wstage \in {"fail", "done"}
              /\ Count(wlog, Event("call", "complete_task")) = 0
              /\ wstage = "done" => task.status = "failed"

\* C14 witness: two content calls returned, the third raised, and the task
\* ended as failed
C14_Witness ==
    /\ wstage = "done"
    /\ Count(wlog, Event("returned", "part2")) = 1
    /\ Count(wlog, Event("raised", "part3")) = 1
    /\ task.status = "failed"
    /\ task.error = "exception"

\* C16: every generation task started by /api/generate eventually reaches
\* status 'completed' or 'failed', provided every external call it makes (AI
\* request, plot subprocess, typesetting run, file operation) returns, raises
\* or times out.
C16_Terminates ==
    (task # NoTask) ~> (wstage = "done" /\ task.status \in {"completed", "failed"})

\* C16 witness: a task with an API went through every stage and is completed
C16_Witness ==
    /\ wstage = "done"
    /\ task.status = "completed"
    /\ opts.api
    /\ Count(wlog, Event("returned", "plot")) = 1

\* the number of complete_task and fail_task calls the worker made
TerminalCalls(log) ==
    Count(log, Event("call", "complete_task")) + Count(log, Event("call", "fail_task"))

\* C17: the worker of a generation task moves it to a terminal state exactly
\* once: it calls exactly one of complete_task and fail_task and makes no
\* update to the task afterwards, so a task once observed as 'completed' or
\* 'failed' never changes status again.
C17_TerminalOnce ==
    /\ [](/\ TerminalCalls(wlog) <= 1
          /\ wstage = "done" =>
                /\ TerminalCalls(wlog) = 1
                /\ wlog[Len(wlog)].ev = "call"
                /\ wlog[Len(wlog)].what \in {"complete_task", "fail_task"})
    /\ [][/\ wstage = "done" => task' = task
          /\ task.status \in {"completed", "failed"} => task'.status = task.status
          /\ pobs.status \in {"completed", "failed"} => pobs'.status = pobs.status]_vars

\* C17 witness: a poll saw the task failed after a failed compile, and the worker
\* has returned
C17_Witness ==
    /\ wstage = "done"
    /\ pobs.status = "failed"
    /\ pobs.error = "compile failed"
    /\ Count(wlog, Event("compile", "failed")) = 1

\* what C18 says of a status record
Consistent(t) ==
    /\ t.status \in {"pending", "processing", "completed", "failed"}
    /\ t.status = "pending" => t.progress = 0
    /\ t.status = "completed" =>
          t.progress = 100 /\ t.result # "none" /\ t.error = "none"
    /\ t.status = "failed" => t.error # "none" /\ t.result = "none"

\* C18 where the lock is free: no method of TaskManager is under way
C18_WhenUnlocked == (task # NoTask /\ lock # "worker") => Consistent(task)

\* C18: in every reachable state each task's status is one of pending,
\* processing, completed, failed; a new task is pending with progress 0; a
\* completed task has progress 100, a non-empty result and no error; a failed
\* task has a non-empty error and no result.  Stated of the states in which the
\* record can be read: the lock is free, or a poller holds the record that
\* get_task handed out.
C18_Original ==
    (task # NoTask /\ (lock # "worker" \/ (ppc = "got" /\ pref = "ref")))
        => Consistent(task)

\* C19: over the lifetime of a generation task the progress values a poller
\* can observe never decrease, stay within 0..100, and reach 100 only when
\* the task is completed.
C19_Progress ==
    /\ [](/\ task # NoTask =>
                /\ task.progress \in 0..100
                /\ task.progress = 100 => task.status = "completed"
          /\ pobs.status \notin {"none", "404"} =>
                /\ pobs.progress \in 0..100
                /\ pobs.progress = 100 => pobs.status = "completed")
    /\ [][/\ (task # NoTask /\ task' # NoTask) => task'.progress >= task.progress
          /\ (pobs.status \notin {"none", "404"} /\ pobs'.status \notin {"none", "404"})
                => pobs'.progress >= pobs.progress]_vars

\* C19 witness: the second poll saw progress 100
C19_Witness ==
    /\ polls = MaxPolls
    /\ pobs.status = "completed"
    /\ pobs.progress = 100

\* the place of an event in the log, 0 when it is not there
PlaceOf(log, e) ==
    LET hits == {i \in 1..Len(log) : log[i] = e}
    IN  IF hits = {} THEN 0 ELSE Min(hits)

\* the history holds a record of the task's session
HasRecord == ExistingIdx(history, TaskSession) # 0

\* C20: a history record for a session is added only after its compile
\* succeeded and before the task is marked completed, so whenever a task is
\* observed as 'completed' the history already holds a record for its session
\* and the session map already holds its PDF path; when the compile fails, the
\* history is not changed.
C20_RecordBeforeCompleted ==
    /\ HasRecord => PlaceOf(wlog, Event("compile", "ok")) # 0
    /\ PlaceOf(wlog, Event("call", "complete_task")) # 0 =>
          /\ PlaceOf(wlog, Event("add_record", "saved")) # 0
          /\ PlaceOf(wlog, Event("compile", "ok"))
                < PlaceOf(wlog, Event("add_record", "saved"))
          /\ PlaceOf(wlog, Event("add_record", "saved"))
                < PlaceOf(wlog, Event("call", "complete_task"))
    /\ (task # NoTask /\ task.status = "completed") =>
          HasRecord /\ JsonLoad(historyFile) = history /\ sess.pdf = FinalPdf
    /\ pobs.status = "completed" => HasRecord /\ sess.pdf = FinalPdf
    /\ PlaceOf(wlog, Event("compile", "failed")) # 0 =>
          history = <<>> /\ historyFile = <<>> /\ sess.pdf = "none"

\* C20 witness: a poll saw the task completed
C20_Witness ==
    /\ pobs.status = "completed"
    /\ HasRecord
    /\ history[1].work_dir = WorkDirOf(TaskSession)
    /\ sess.pdf = FinalPdf

\* the places of the log where the plot script failed or timed out
FailedPlots ==
    {i \in 1..Len(wlog) : wlog[i] \in {Event("plot", "failed"),
                                       Event("plot", "timeout")}}

Logged(e) == \E i \in 1..Len(wlog) : wlog[i] = e

\* something raised after the plot run
RaisedAfterPlot ==
    \E i \in FailedPlots : \E j \in (i + 1)..Len(wlog) :
        wlog[j].ev = "raised" \/ wlog[j] = Event("add_record", "raised")

\* what C26 says of the steps that follow a plot script that failed or timed
\* out: the task is not failed for it, the worker's next call reports the
\* splice stage, the figures the runner returned (none after a timeout) are
\* the ones inserted, and a compile comes after the splice
C26_GoesOn ==
    \A i \in FailedPlots :
        /\ wlog[i + 1].ev = "figures"
        /\ wlog[i] = Event("plot", "timeout") => wlog[i + 1].what = "none"
        /\ Len(wlog) = i + 1 => wstage = "splice" /\ task.status = "processing"
        /\ Len(wlog) > i + 1 => wlog[i + 2] = Event("call", "update_progress")
        /\ \A j \in 1..Len(wlog) :
              /\ wlog[j].ev = "spliced" => j > i /\ wlog[j].what = wlog[i + 1].what
              /\ wlog[j].ev = "compile" =>
                     \E k \in (i + 1)..(j - 1) : wlog[k].ev = "spliced"

\* C26 as stated: a plot script that fails or times out does not fail the
\* generation task: the worker goes on to splice the template and compile the
\* report, inserting whatever figures the runner returned, and the task's
\* outcome is decided by the compile step alone.
C26_Original ==
    /\ C26_GoesOn
    /\ (FailedPlots # {} /\ wstage = "done") =>
          /\ Logged(Event("compile", "ok")) \/ Logged(Event("compile", "failed"))
          /\ task.status = "completed" <=> Logged(Event("compile", "ok"))
          /\ task.status = "failed" <=> Logged(Event("compile", "failed"))

\* C26, amended: a plot script that fails or times out does not fail the
\* generation task: the worker goes on to splice the template and compile the
\* report, inserting whatever figures the runner returned; the task then
\* completes when the compile step succeeds and the history record is saved,
\* and it fails when the compile step fails or when a step after the plot run
\* raises an exception (the splice, the compile, or add_record after a
\* compile that succeeded).
C26_Amended ==
    /\ C26_GoesOn
    /\ (FailedPlots # {} /\ wstage = "done") =>
          /\ task.status \in {"completed", "failed"}
          /\ task.status = "completed" <=>
                 /\ Logged(Event("compile", "ok"))
                 /\ Logged(Event("add_record", "saved"))
          /\ task.status = "failed" <=>
                 \/ Logged(Event("compile", "failed"))
                 \/ RaisedAfterPlot

\* C26 witness: the script failed with a figure written, and the task
\* completed with that figure inserted
C26_Witness ==
    /\ Logged(Event("plot", "failed"))
    /\ Logged(Event("figures", "some"))
    /\ Logged(Event("spliced", "some"))
    /\ Logged(Event("compile", "ok"))
    /\ wstage = "done"
    /\ task.status = "completed"

(***************************************************************************)
(* LaTeX compiler invoker (LaTeXCompiler.compile) and its callers          *)
(***************************************************************************)
\* number of compile calls made for the session in a run
MaxCompiles == 3

\* for i in range(2), line 69
RunsPerCompile == 2

\* the callers of compile_latex: run_generation_task (line 354), modify_report
\* (line 875) and update_tex (line 938)
Callers == {"generate", "modify_report", "update_tex"}

\* a loop that makes one run more
NextAfterRunOneMore(done) == IF done < RunsPerCompile + 1 THEN "run" ELSE "check"

\* the loop of lines 69-78: the next run while fewer than two are done, then
\* the check for the PDF
NextAfterRun(done) == IF done < RunsPerCompile THEN "run" ELSE "check"

\* lines 104-112: an exception of subprocess.run leaves the loop
AfterFailedRun(done) == "except"

\* lines 82-102: success with the final path when the PDF exists
CheckResult(pdf, n) ==
    IF pdf # 0
    THEN [success |-> TRUE, pdf |-> FinalPdf, call |-> n]
    ELSE [success |-> FALSE, pdf |-> "none", call |-> n]

\* what the caller does with the result: a success stores the paths in the
\* session map (lines 360-367, 881-882, 944-945)
SessionAfter(se, ret) ==
    IF ret.success THEN [tex |-> TRUE, pdf |-> ret.pdf] ELSE se

CompileInit == NotCompIdle /\ CompileIdle

\* a caller writes the tex file and calls compile_latex (the file exists, so
\* that line 39 does not return); update_tex and modify_report need the
\* session's tex_file, which a successful generation set
CompileCall(caller) ==
    /\ cpc = "idle"
    /\ ccall.n < MaxCompiles
    /\ caller # "generate" => sess.tex
    /\ ccall' = [n |-> ccall.n + 1, caller |-> caller]
    /\ cpc' = "run"
    /\ cstarted' = 0
    /\ cruns' = <<>>
    /\ cchecked' = FALSE
    /\ cret' = NoReturn
    /\ UNCHANGED <<pdfBy, sess>>
    /\ UNCHANGED notCompVars

\* subprocess.run starts the typesetting binary
RunStart ==
    /\ cpc = "run"
    /\ cstarted' = cstarted + 1
    /\ cpc' = "running"
    /\ UNCHANGED <<ccall, cruns, cchecked, pdfBy, cret, sess>>
    /\ UNCHANGED notCompVars

\* subprocess.run cannot start the binary: FileNotFoundError, or another
\* error of the operating system
RunNotFound ==
    /\ cpc = "run"
    /\ cstarted' = cstarted + 1
    /\ \E e \in {"notfound", "oserror"} : cruns' = Append(cruns, e)
    /\ cpc' = AfterFailedRun(Len(cruns'))
    /\ UNCHANGED <<ccall, cchecked, pdfBy, cret, sess>>
    /\ UNCHANGED notCompVars

\* the binary exits (its return code is not looked at); it has written
\* main.pdf or it has not
RunFinish ==
    /\ cpc = "running"
    /\ \E wrote \in BOOLEAN : pdfBy' = IF wrote THEN ccall.n ELSE pdfBy
    /\ cruns' = Append(cruns, "finished")
    /\ cpc' = NextAfterRun(Len(cruns'))
    /\ UNCHANGED <<ccall, cstarted, cchecked, cret, sess>>
    /\ UNCHANGED notCompVars

\* the run takes longer than self.timeout: TimeoutExpired
RunTimeout ==
    /\ cpc = "running"
    /\ cruns' = Append(cruns, "timeout")
    /\ cpc' = AfterFailedRun(Len(cruns'))
    /\ UNCHANGED <<ccall, cstarted, cchecked, pdfBy, cret, sess>>
    /\ UNCHANGED notCompVars

\* lines 80-102: look for the PDF and return
CheckPdf ==
    /\ cpc = "check"
    /\ cchecked' = TRUE
    /\ cret' = CheckResult(pdfBy, ccall.n)
    /\ sess' = SessionAfter(sess, cret')
    /\ cpc' = "idle"
    /\ UNCHANGED <<ccall, cstarted, cruns, pdfBy>>
    /\ UNCHANGED notCompVars

\* lines 104-112: the except clauses return failure
CompileExcept ==
    /\ cpc = "except"
    /\ cret' = [success |-> FALSE, pdf |-> "none", call |-> ccall.n]
    /\ sess' = SessionAfter(sess, cret')
    /\ cpc' = "idle"
    /\ UNCHANGED <<ccall, cstarted, cruns, cchecked, pdfBy>>
    /\ UNCHANGED notCompVars

CompileNext ==
    \/ \E caller \in Callers : CompileCall(caller)
    \/ RunStart
    \/ RunNotFound
    \/ RunFinish
    \/ RunTimeout
    \/ CheckPdf
    \/ CompileExcept

SpecCompile == CompileInit /\ [][CompileNext]_vars

(***************************************************************************)
(* Claims about the compiler invoker                                       *)
(***************************************************************************)

\* C5: compile runs the typesetting binary exactly twice, the second run
\* starting only after the first has finished, before it checks for the PDF;
\* if a run times out or the binary cannot be started, no further run is made
\* and compile returns failure with no PDF path.
C5_TwoRunsThenCheck ==
    /\ cstarted <= RunsPerCompile
    \* at most one run at a time: all runs started before the last have ended
    /\ cstarted - Len(cruns) \in {0, 1}
    /\ (cpc = "running") = (cstarted = Len(cruns) + 1)
    \* the PDF is looked for after two finished runs only
    /\ (cchecked \/ cpc = "check") =>
           cstarted = RunsPerCompile /\ cruns = <<"finished", "finished">>
    \* a run that timed out or could not start is the last one, and the call
    \* returns failure without a path
    /\ \A i \in 1..Len(cruns) :
           cruns[i] # "finished" =>
               /\ i = Len(cruns)
               /\ cstarted = Len(cruns)
               /\ cpc \in {"except", "idle"}
               /\ ~cchecked
               /\ cpc = "idle" => ~cret.success /\ cret.pdf = "none"
                                      /\ cret.call = ccall.n

\* C5 witness: a compile call that made two runs, checked for the PDF and
\* returned
C5_Witness ==
    /\ cpc = "idle"
    /\ cchecked
    /\ cstarted = RunsPerCompile
    /\ cret.call = ccall.n

\* C6: whenever compile returns success, the PDF path it returns lies in the
\* output directory and names the PDF that resulted from this call's two runs,
\* for every compile of a sequence of compiles of the same session.
C6_Original ==
    (cpc = "idle" /\ cret.success) =>
        /\ cret.pdf = FinalPdf
        /\ pdfBy = cret.call

(***************************************************************************)
(* Plotting-code runner (PythonExecutor)                                   *)
(***************************************************************************)
\* number of execute_plotting_code calls for the session in a run (the session
\* is generated again with the same session id)
MaxExecs == 2

\* the plots a script saves are plot_1.png .. plot_<MaxPlot>.png
MaxPlot == 2

\* the timeout of subprocess.run, line 54
ExecTimeout == 60

\* a token of Python code: a statement, plt.show(), or a savefig call with
\* a quoted path (dir "rel": a bare file name, "sub": a path with a directory)
\* or with an expression as its argument (dir "expr")
Tok(op, dir, file) == [op |-> op, dir |-> dir, file |-> file]

Stmt == Tok("stmt", "", 0)
Show == Tok("show", "", 0)
Save(dir, file) == Tok("savefig", dir, file)

\* the files a script can save: 0 is plot_0.eps, k > 0 is plot_k.png
Files == 0..MaxPlot

Ext(file) == IF file = 0 THEN "eps" ELSE "png"

\* _find_generated_images, line 141
ImageExts == {"png", "jpg", "jpeg", "pdf", "svg"}

\* the plot codes execute_plotting_code is called with
PlotCodes ==
    {<<Stmt, Save(d, f)>> : d \in {"rel", "sub", "expr"}, f \in Files}
    \cup {<<Save("rel", f), Show, Save("rel", g)>> : f, g \in 1..MaxPlot}
    \cup {<<Stmt, Show>>}

\* the data codes it is called with; <<>> is None
DataCodes == {<<>>, <<Stmt>>, <<Stmt, Stmt>>}

\* _preprocess_code, lines 77-107: the injected preamble
Header == <<Tok("header", "", 0)>>

\* _preprocess_code, line 111: the data code between its two comment lines
DataSection(data) ==
    IF data # <<>>
    THEN <<Tok("# data", "", 0)>> \o data \o <<Tok("# plot", "", 0)>>
    ELSE <<>>

\* _preprocess_code, lines 117-132: plt.show() is commented out and a savefig
\* with a quoted path is pointed at fig_dir/<basename>
ProcessedToken(t) ==
    CASE t.op = "show" -> Tok("# show", "", 0)
      [] t.op = "savefig" /\ t.dir \in {"rel", "sub", "fig"} -> Save("fig", t.file)
      [] OTHER -> t

Processed(code) == [i \in 1..Len(code) |-> ProcessedToken(code[i])]

\* a slip in the concatenation: the data code ends up after the plot code
PreprocessCodeDataLast(code, data) == Header \o Processed(code) \o DataSection(data)

\* _preprocess_code: header + data section + processed plot code
PreprocessCode(code, data) == Header \o DataSection(data) \o Processed(code)

\* the files in Fig that the first k statements of a script write
WrittenBy(script, k) ==
    {script[i].file : i \in {j \in 1..k : script[j].op = "savefig"
                                          /\ script[j].dir = "fig"}}

\* the Fig directory after run n wrote the files of W
FigAfter(fig, W, n) == [f \in Files |-> IF f \in W THEN n ELSE fig[f]]

\* the ascending sequence of the numbers of S
RECURSIVE Sorted(_)
Sorted(S) == IF S = {} THEN <<>> ELSE <<Min(S)>> \o Sorted(S \ {Min(S)})

\* _find_generated_images: the sorted list of the files of Fig that have an
\* image extension
FindGeneratedImages(fig) ==
    Sorted({f \in Files : fig[f] # 0 /\ Ext(f) \in ImageExts})

\* line 69: except subprocess.TimeoutExpired: return False, ..., []
TimeoutReturn(fig, n, W) ==
    [success |-> FALSE, images |-> <<>>, timeout |-> TRUE, run |-> n, wrote |-> W]

ExecInit ==
    /\ NotExecIdle
    /\ epc = "idle"
    /\ ecode = <<>>
    /\ edata = <<>>
    /\ escript = <<>>
    /\ etimeout = 0
    /\ figDir = [f \in Files |-> 0]
    /\ eruns = 0
    /\ eret = NoExecReturn

\* execute_plotting_code(code, data_code), lines 39-57: the script is written
\* and the subprocess is started
ExecBegin(code, data) ==
    /\ epc = "idle"
    /\ eruns < MaxExecs
    /\ ecode' = code
    /\ edata' = data
    /\ escript' = PreprocessCode(code, data)
    /\ etimeout' = ExecTimeout
    /\ eruns' = eruns + 1
    /\ eret' = NoExecReturn
    /\ epc' = "running"
    /\ UNCHANGED figDir
    /\ UNCHANGED notExecVars

\* the script ends after its first k statements: with return code 0 when it
\* ran to its end, with an error when it stopped before; lines 59-66
ExecFinish ==
    /\ epc = "running"
    /\ \E k \in 0..Len(escript) :
          /\ figDir' = FigAfter(figDir, WrittenBy(escript, k), eruns)
          /\ eret' = [success |-> k = Len(escript),
                      images |-> FindGeneratedImages(figDir'),
                      timeout |-> FALSE, run |-> eruns,
                      wrote |-> WrittenBy(escript, k)]
    /\ epc' = "idle"
    /\ UNCHANGED <<ecode, edata, escript, etimeout, eruns>>
    /\ UNCHANGED notExecVars

\* the script is still running after its first k statements when the timeout
\* expires; lines 68-69
ExecTimedOut ==
    /\ epc = "running"
    /\ \E k \in 0..(Len(escript) - 1) :
          /\ figDir' = FigAfter(figDir, WrittenBy(escript, k), eruns)
          /\ eret' = TimeoutReturn(figDir', eruns, WrittenBy(escript, k))
    /\ epc' = "idle"
    /\ UNCHANGED <<ecode, edata, escript, etimeout, eruns>>
    /\ UNCHANGED notExecVars

\* subprocess.run raises another error (the interpreter cannot be started);
\* lines 70-71
ExecError ==
    /\ epc = "running"
    /\ eret' = [success |-> FALSE, images |-> <<>>, timeout |-> FALSE,
                run |-> eruns, wrote |-> {}]
    /\ epc' = "idle"
    /\ UNCHANGED <<ecode, edata, escript, etimeout, figDir, eruns>>
    /\ UNCHANGED notExecVars

ExecNext ==
    \/ \E code \in PlotCodes, data \in DataCodes : ExecBegin(code, data)
    \/ ExecFinish
    \/ ExecTimedOut
    \/ ExecError

SpecExec == ExecInit /\ [][ExecNext]_vars

(***************************************************************************)
(* Claims about the plotting-code runner                                   *)
(***************************************************************************)

\* the plot code as it stands in the script: token by token the code it was
\* made from, but for a disabled plt.show() and a redirected savefig path
SamePlotCode(part, code) ==
    /\ Len(part) = Len(code)
    /\ \A i \in 1..Len(code) :
          \/ part[i] = code[i]
          \/ code[i].op = "show" /\ part[i].op = "# show"
          \/ /\ code[i].op = "savefig" /\ part[i].op = "savefig"
             /\ part[i].file = code[i].file /\ part[i].dir = "fig"

\* C7: execute_plotting_code writes a single script made of the injected
\* preamble, then the data code when it is given, then the plot code (with
\* plt.show() disabled and the savefig paths pointed at Fig), in that order,
\* and runs it as a subprocess with a 60-second timeout; when the timeout
\* expires the call returns failure together with an empty image list.
C7_ScriptAndTimeout ==
    /\ eruns > 0 =>
          LET h == Len(Header)
              d == Len(edata)
          IN  /\ etimeout = 60
              /\ SubSeq(escript, 1, h) = Header
              /\ IF edata = <<>>
                 THEN SamePlotCode(SubSeq(escript, h + 1, Len(escript)), ecode)
                 ELSE /\ Len(escript) = h + d + 2 + Len(ecode)
                      /\ escript[h + 1].op = "# data"
                      /\ SubSeq(escript, h + 2, h + 1 + d) = edata
                      /\ escript[h + d + 2].op = "# plot"
                      /\ SamePlotCode(SubSeq(escript, h + d + 3, Len(escript)), ecode)
    /\ eret.timeout => ~eret.success /\ eret.images = <<>>

\* C7 witness: a call with data code and plot code whose script timed out
\* after it had saved a plot
C7_Witness ==
    /\ epc = "idle"
    /\ eret.timeout
    /\ edata # <<>>
    /\ eret.wrote # {}

\* the image files (by the extensions the runner looks for) that run n wrote
\* into Fig
ProducedImages(ret) == {f \in ret.wrote : Ext(f) \in ImageExts}

\* C8: the image list returned by execute_plotting_code contains exactly the
\* image files that this run of the script produced in the session's Fig
\* directory, also when the same session is generated more than once.  Stated
\* for the calls whose script ended (after a timeout C7's empty list is returned).
C8_Original ==
    (epc = "idle" /\ eret.run > 0 /\ ~eret.timeout) =>
        {eret.images[i] : i \in 1..Len(eret.images)} = ProducedImages(eret)

(***************************************************************************)
(* Text                                                                    *)
(*                                                                         *)
(* A text is a sequence of tokens.  A token stands for one character or    *)
(* for one occurrence of a literal the code searches for:                  *)
(*   "nl" newline, "sp" another whitespace character, "txt" a character of *)
(*   plain text, "zh" a Chinese character, "cmd" a LaTeX command (it       *)
(*   starts with a backslash), "fence" a ``` mark, "latex" the word latex. *)
(***************************************************************************)
IsSpace(t) == t \in {"nl", "sp"}

RECURSIVE LStrip(_)
LStrip(s) == IF s # <<>> /\ IsSpace(Head(s)) THEN LStrip(Tail(s)) ELSE s

RECURSIVE RStrip(_)
RStrip(s) ==
    IF s # <<>> /\ IsSpace(s[Len(s)]) THEN RStrip(SubSeq(s, 1, Len(s) - 1)) ELSE s

\* str.strip()
Strip(s) == RStrip(LStrip(s))

\* the places of token t in s
Positions(s, t) == {i \in 1..Len(s) : s[i] = t}

\* str.split('\n')
RECURSIVE SplitLines(_)
SplitLines(s) ==
    IF Positions(s, "nl") = {} THEN <<s>>
    ELSE LET i == Min(Positions(s, "nl"))
         IN  <<SubSeq(s, 1, i - 1)>> \o SplitLines(Drop(s, i))

\* sep.join(parts)
RECURSIVE Join(_, _)
Join(parts, sep) ==
    IF parts = <<>> THEN <<>>
    ELSE IF Len(parts) = 1 THEN parts[1]
    ELSE parts[1] \o sep \o Join(Tail(parts), sep)

(***************************************************************************)
(* Report content generator (ReportGenerator.generate_report_content)      *)
(***************************************************************************)
\* number of data-sheet images of a session
MaxImages == 2

\* clean_content, line 71: a preface is dropped when the first backslash is
\* within the first 200 characters
PrefaceLimit == 200

\* the answers of the AI backend
RawResponses ==
    { <<>>,
      <<"cmd", "txt">>,
      <<"sp", "cmd", "txt", "txt", "nl">>,
      <<"fence", "latex", "nl", "cmd", "nl", "cmd", "nl", "fence">>,
      <<"zh", "txt", "nl", "cmd", "cmd">>,
      <<"fence", "nl", "txt", "cmd">>,
      <<"zh", "nl", "fence", "nl", "cmd", "nl", "fence", "nl", "zh">> }

\* clean_content, lines 53-55: re.search(r'```(?:latex)?\s*(.*?)\s*```'): the
\* text between the first two fences, without a leading "latex" and without
\* the whitespace around it
FencedBody(s) ==
    LET a == Min(Positions(s, "fence"))
        b == Min(Positions(s, "fence") \ {a})
        inner == SubSeq(s, a + 1, b - 1)
    IN  Strip(IF inner # <<>> /\ Head(inner) = "latex" THEN Tail(inner) ELSE inner)

\* clean_content, lines 58-65: the lines that start with a fence are dropped
WithoutFenceLines(s) ==
    LET lines == SplitLines(s)
        keep == SelectSeq(lines, LAMBDA l : LStrip(l) = <<>> \/ Head(LStrip(l)) # "fence")
    IN  Join(keep, <<"nl">>)

\* clean_content, lines 69-75: text in front of the first backslash is dropped
\* when it holds a Chinese character
WithoutPreface(c) ==
    IF Positions(c, "cmd") = {} THEN c
    ELSE LET first_slash == Min(Positions(c, "cmd")) - 1
         IN  IF /\ first_slash > 0
                /\ first_slash < PrefaceLimit
                /\ "zh" \in Range(Take(c, first_slash))
             THEN Drop(c, first_slash)
             ELSE c

\* AIBackend.clean_content
CleanContent(s) ==
    IF s = <<>> THEN <<>>
    ELSE LET body == IF Cardinality(Positions(s, "fence")) >= 2
                     THEN FencedBody(s)
                     ELSE WithoutFenceLines(s)
         IN  Strip(WithoutPreface(Strip(body)))

\* a slip in the call of part 1: it is handed the images as well
ImagesForAlsoFirst(part, images) ==
    IF part \in {1, 2} THEN [given |-> TRUE, images |-> images]
    ELSE [given |-> FALSE, images |-> <<>>]

\* lines 226, 233, 242: only the call of part 2 is given data_sheet_images
ImagesFor(part, images) ==
    IF part = 2 THEN [given |-> TRUE, images |-> images]
    ELSE [given |-> FALSE, images |-> <<>>]

\* lines 225, 232, 240-241: what of the earlier parts goes into the prompt
PromptContext(part, parts) ==
    CASE part = 1 -> <<>>
      [] part = 2 -> parts[1]
      [] part = 3 -> parts[1] \o <<"nl">> \o parts[2]

\* line 247: full_content = f"{part1_content}\n\n{part2_content}\n\n{part3_content}"
FullContent(parts) == Join(parts, <<"nl", "nl">>)

GenInit ==
    /\ NotGenIdle
    /\ gpc = "idle"
    /\ gpart = 0
    /\ gimages \in {[i \in 1..n |-> i] : n \in 0..MaxImages}
    /\ glog = <<>>
    /\ gparts = <<>>
    /\ gresult = <<>>

\* generate_report_content is called
GenBegin ==
    /\ gpc = "idle"
    /\ gpart = 0
    /\ gpart' = 1
    /\ gpc' = "call"
    /\ UNCHANGED <<gimages, glog, gparts, gresult>>
    /\ UNCHANGED notGenVars

\* the prompt of the part is built and self.backend.generate is called
GenCall ==
    /\ gpc = "call"
    /\ glog' = Append(glog, [ev |-> "call", part |-> gpart,
                             given |-> ImagesFor(gpart, gimages).given,
                             text |-> PromptContext(gpart, gparts),
                             images |-> ImagesFor(gpart, gimages).images])
    /\ gpc' = "wait"
    /\ UNCHANGED <<gpart, gimages, gparts, gresult>>
    /\ UNCHANGED notGenVars

\* the backend returns its answer
BackendReturn ==
    /\ gpc = "wait"
    /\ \E raw \in RawResponses :
          glog' = Append(glog, [ev |-> "return", part |-> gpart, given |-> FALSE,
                                text |-> raw, images |-> <<>>])
    /\ gpc' = "clean"
    /\ UNCHANGED <<gpart, gimages, gparts, gresult>>
    /\ UNCHANGED notGenVars

\* the request fails (raise_for_status, a timeout): the error leaves
\* generate_report_content
BackendRaise ==
    /\ gpc = "wait"
    /\ glog' = Append(glog, [ev |-> "raise", part |-> gpart, given |-> FALSE,
                             text |-> <<>>, images |-> <<>>])
    /\ gpc' = "raised"
    /\ UNCHANGED <<gpart, gimages, gparts, gresult>>
    /\ UNCHANGED notGenVars

\* partN_content = self.backend.clean_content(partN_raw)
GenClean ==
    /\ gpc = "clean"
    /\ LET cleaned == CleanContent(glog[Len(glog)].text)
       IN  /\ gparts' = Append(gparts, cleaned)
           /\ glog' = Append(glog, [ev |-> "clean", part |-> gpart, given |-> FALSE,
                                    text |-> cleaned, images |-> <<>>])
    /\ IF gpart < 3
       THEN gpart' = gpart + 1 /\ gpc' = "call"
       ELSE gpart' = gpart /\ gpc' = "join"
    /\ UNCHANGED <<gimages, gresult>>
    /\ UNCHANGED notGenVars

\* lines 247-249: the parts are joined and returned
GenReturn ==
    /\ gpc = "join"
    /\ gresult' = FullContent(gparts)
    /\ gpc' = "done"
    /\ UNCHANGED <<gpart, gimages, glog, gparts>>
    /\ UNCHANGED notGenVars

GenNext ==
    \/ GenBegin
    \/ GenCall
    \/ BackendReturn
    \/ BackendRaise
    \/ GenClean
    \/ GenReturn

SpecGen == GenInit /\ [][GenNext]_vars

(***************************************************************************)
(* Claims about the report content generator                               *)
(***************************************************************************)

\* the events of the log of the given kind
Events(kind) == SelectSeq(glog, LAMBDA e : e.ev = kind)

\* C4: generate_report_content calls the AI backend exactly three times,
\* strictly one after another (sections 1-4, then section 5, then sections
\* 6-7): each call starts only after the previous one has returned and been
\* cleaned, only the second call is given the data-sheet images, and the
\* returned content is the three cleaned outputs joined in call order.
C4_ThreeSequentialCalls ==
    \* never more than three calls; exactly three when the content is returned
    /\ Len(Events("call")) <= 3
    /\ gpc = "done" => Len(Events("call")) = 3 /\ Len(Events("clean")) = 3
    \* call k is event 3k-2 of the log, its return 3k-1 and its cleaning 3k: a
    \* call is preceded by the return and the cleaning of the call before it
    /\ \A i \in 1..Len(glog) :
          /\ glog[i].part = (i + 2) \div 3
          /\ i % 3 = 1 => glog[i].ev = "call"
          /\ i % 3 = 2 => glog[i].ev \in {"return", "raise"}
          /\ i % 3 = 0 => glog[i].ev = "clean" /\ glog[i - 1].ev = "return"
          /\ glog[i].ev = "raise" => i = Len(glog)
    \* only the second call is given the images
    /\ \A i \in 1..Len(glog) :
          glog[i].ev = "call" =>
              /\ glog[i].given = (glog[i].part = 2)
              /\ glog[i].part = 2 => glog[i].images = gimages
    \* the prompts of calls 2 and 3 carry the cleaned output of the calls before
    /\ Len(glog) >= 4 => glog[4].text = glog[3].text
    /\ Len(glog) >= 7 => glog[7].text = glog[3].text \o <<"nl">> \o glog[6].text
    \* the result is the three cleaned outputs in call order
    /\ gpc = "done" =>
          gresult = glog[3].text \o <<"nl", "nl">> \o glog[6].text
                        \o <<"nl", "nl">> \o glog[9].text

\* C4 witness: a generation that returned, with images, whose three cleaned
\* outputs differ from one another and from the raw answers
C4_Witness ==
    /\ gpc = "done"
    /\ gimages # <<>>
    /\ glog[3].text # glog[6].text
    /\ glog[6].text # glog[9].text
    /\ glog[3].text # glog[9].text
    /\ glog[2].text # glog[3].text
    /\ glog[3].text # <<>>

(***************************************************************************)
(* Template splicer (integrate_ai_content, add_figures_to_content,         *)
(* add_appendix_images) as run_generation_task calls them                  *)
(*                                                                         *)
(* Further tokens of a LaTeX text: "BC" and "EC" are the comment lines     *)
(* % BEGIN:content and % END:content, "BA" and "EA" % BEGIN:appendix and   *)
(* % END:appendix, "BTh" is \begin{table}[htbp], "BTH" \begin{table}[H],   *)
(* "ET" \end{table}, "SQ" \section{思考题}, "SS" \section{总结}, "secApp"  *)
(* \section{附录}, "subFigs", "subPrev", "subData" the \subsection lines   *)
(* of the inserted figures, and "fig1", "prev1", "data1", .. one figure    *)
(* environment each.                                                       *)
(***************************************************************************)
\* number of figures the plot script generated
MaxFigs == 2

FigNames == <<"fig1", "fig2", "fig3", "fig4">>
PrevNames == <<"prev1", "prev2", "prev3", "prev4">>
DataNames == <<"data1", "data2", "data3", "data4">>

\* the template after TemplateProcessor.process: with a content region and an
\* appendix region; without a content region; without an appendix region; with
\* two content regions; with an END marker in front of the BEGIN marker
Templates ==
    { <<"txt", "BC", "nl", "txt", "nl", "EC", "nl", "BA", "nl", "EA", "nl", "cmd">>,
      <<"txt", "BA", "nl", "EA", "cmd">>,
      <<"txt", "BC", "EC", "txt">>,
      <<"cmd", "BC", "txt", "EC", "txt", "BC", "EC", "nl", "BA", "EA">>,
      <<"EC", "txt", "BC", "txt", "BA", "txt", "EA">> }

\* the content the AI generated
AiContents ==
    { <<>>,
      <<"cmd", "txt">>,
      <<"nl", "nl", "nl", "nl">>,
      <<"nl", "cmd", "BTh", "txt", "ET", "nl", "SS", "txt", "sp">>,
      <<"cmd", "BA", "txt", "EA", "txt">>,
      <<"BTh", "ET", "BA", "EA", "sp">>,
      <<"txt", "EC", "txt", "BC">>,
      <<"BTH", "ET", "txt", "BTh", "ET", "SQ">>,
      <<"BA", "txt">> }

\* re.sub(r'(b)(.*?)(e)', ..., flags=re.DOTALL) with the replacement
\* b + "\n" + body + "\n" + e: every span from a b to the nearest e after it,
\* from left to right
RECURSIVE ReplaceRegions(_, _, _, _)
ReplaceRegions(s, b, e, body) ==
    IF Positions(s, b) = {} THEN s
    ELSE LET i == Min(Positions(s, b))
             E == {j \in Positions(s, e) : j > i}
         IN  IF E = {} THEN s
             ELSE Take(s, i) \o <<"nl">> \o body \o <<"nl", e>>
                      \o ReplaceRegions(Drop(s, Min(E)), b, e, body)

\* the same with a greedy (.*): one span, from the first b to the last e
ReplaceGreedy(s, b, e, body) ==
    IF Positions(s, b) = {} THEN s
    ELSE LET i == Min(Positions(s, b))
             E == {j \in Positions(s, e) : j > i}
         IN  IF E = {} THEN s
             ELSE Take(s, i) \o <<"nl">> \o body \o <<"nl", e>>
                      \o Drop(s, CHOOSE j \in E : \A k \in E : k <= j)

\* a greedy pattern in integrate_ai_content
IntegrateAiContentGreedy(template_content, ai_content) ==
    ReplaceGreedy(template_content, "BC", "EC", Strip(ai_content))

\* integrate_ai_content, lines 606-624
IntegrateAiContent(template_content, ai_content) ==
    ReplaceRegions(template_content, "BC", "EC", Strip(ai_content))

\* the texts of ts, one after the other
RECURSIVE Flatten(_)
Flatten(ts) == IF ts = <<>> THEN <<>> ELSE Head(ts) \o Flatten(Tail(ts))

\* "\n\n".join(figs)
JoinFigs(figs) == Join([i \in 1..Len(figs) |-> <<figs[i]>>], <<"nl", "nl">>)

\* add_figures_to_content with the surplus taken from the figure after the
\* last table's own
AddFiguresToContentSurplusOnly(c, figs) ==
    LET tables == Positions(c, "ET")
        T == Cardinality(tables)
        F == Len(figs)
        anchors == Positions(c, "SQ") \cup Positions(c, "SS") \cup Positions(c, "BA")
        \* the text inserted after the k-th table (lines 593-599)
        after(k) ==
            IF k = T /\ F > T
            THEN <<"nl", "nl">> \o JoinFigs(SubSeq(figs, T + 1, F)) \o <<"nl">>
            ELSE IF k <= F THEN <<"nl", "nl", figs[k], "nl">>
            ELSE <<>>
        rank(i) == Cardinality({j \in tables : j <= i})
    IN  IF T = 0 \/ F = 0
        THEN IF F = 0 THEN c
             ELSE IF anchors # {}
                  THEN Take(c, Min(anchors) - 1)
                           \o <<"nl", "nl", "subFigs", "nl">> \o JoinFigs(figs) \o <<"nl">>
                           \o Drop(c, Min(anchors) - 1)
                  ELSE c \o <<"nl", "nl">> \o JoinFigs(figs)
        ELSE Flatten([i \in 1..Len(c) |->
                        IF c[i] = "ET" THEN <<c[i]>> \o after(rank(i)) ELSE <<c[i]>>])

\* add_figures_to_content, lines 558-603
AddFiguresToContent(c, figs) ==
    LET tables == Positions(c, "ET")
        T == Cardinality(tables)
        F == Len(figs)
        anchors == Positions(c, "SQ") \cup Positions(c, "SS") \cup Positions(c, "BA")
        \* the text inserted after the k-th table (lines 593-599)
        after(k) ==
            IF k = T /\ F > T
            THEN <<"nl", "nl">> \o JoinFigs(SubSeq(figs, T, F)) \o <<"nl">>
            ELSE IF k <= F THEN <<"nl", "nl", figs[k], "nl">>
            ELSE <<>>
        rank(i) == Cardinality({j \in tables : j <= i})
    IN  IF T = 0 \/ F = 0
        THEN IF F = 0 THEN c
             ELSE IF anchors # {}
                  THEN Take(c, Min(anchors) - 1)
                           \o <<"nl", "nl", "subFigs", "nl">> \o JoinFigs(figs) \o <<"nl">>
                           \o Drop(c, Min(anchors) - 1)
                  ELSE c \o <<"nl", "nl">> \o JoinFigs(figs)
        ELSE Flatten([i \in 1..Len(c) |->
                        IF c[i] = "ET" THEN <<c[i]>> \o after(rank(i)) ELSE <<c[i]>>])

\* add_appendix_images, line 632: every \begin{table}[..] becomes \begin{table}[H]
TablesHere(c) == [i \in 1..Len(c) |-> IF c[i] = "BTh" THEN "BTH" ELSE c[i]]

\* add_appendix_images, lines 634-659: the lines of the appendix
AppendixText(np, nd) ==
    Join((IF np > 0 THEN <<<<"subPrev">>>> \o [i \in 1..np |-> <<PrevNames[i]>>]
                    ELSE <<>>)
         \o (IF nd > 0 THEN <<<<"subData">>>> \o [i \in 1..nd |-> <<DataNames[i]>>]
                       ELSE <<>>),
         <<"nl">>)

\* re.sub with count=1: the first appendix region only
ReplaceFirst(s, b, e, body) ==
    IF Positions(s, b) = {} THEN s
    ELSE LET i == Min(Positions(s, b))
             E == {j \in Positions(s, e) : j > i}
         IN  IF E = {} THEN s
             ELSE Take(s, i) \o <<"nl">> \o body \o <<"nl", e>> \o Drop(s, Min(E))

\* add_appendix_images that rewrites one appendix region
AddAppendixImagesFirstOnly(c, nd, np) ==
    IF np > 0 \/ nd > 0
    THEN ReplaceFirst(TablesHere(c), "BA", "EA",
                      <<"secApp", "nl">> \o AppendixText(np, nd))
    ELSE TablesHere(c)

\* add_appendix_images, lines 627-668
AddAppendixImages(c, nd, np) ==
    IF np > 0 \/ nd > 0
    THEN ReplaceRegions(TablesHere(c), "BA", "EA",
                        <<"secApp", "nl">> \o AppendixText(np, nd))
    ELSE TablesHere(c)

\* the content is generated only with an API configured, and the figures only
\* from the generated content (lines 265-306)
SpliceInit ==
    /\ NotSpliceIdle
    /\ spc = "integrate"
    /\ tmpl \in Templates
    /\ ai \in AiContents
    /\ nfigs \in 0..MaxFigs
    /\ ai = <<>> => nfigs = 0
    /\ ndata \in 0..MaxImages
    /\ nprev \in 0..1
    /\ afterInt = <<>>
    /\ preApp = <<>>
    /\ content = tmpl

\* lines 337-338: if latex_content: content = integrate_ai_content(...)
SpliceIntegrate ==
    /\ spc = "integrate"
    /\ content' = IF ai # <<>> THEN IntegrateAiContent(content, ai) ELSE content
    /\ afterInt' = content'
    /\ spc' = "figures"
    /\ UNCHANGED <<tmpl, ai, nfigs, ndata, nprev, preApp>>
    /\ UNCHANGED notSpliceVars

\* lines 341-343: if generated_figures: content = add_figures_to_content(...)
SpliceFigures ==
    /\ spc = "figures"
    /\ content' = IF nfigs > 0
                  THEN AddFiguresToContent(content, SubSeq(FigNames, 1, nfigs))
                  ELSE content
    /\ preApp' = content'
    /\ spc' = "appendix"
    /\ UNCHANGED <<tmpl, ai, nfigs, ndata, nprev, afterInt>>
    /\ UNCHANGED notSpliceVars

\* line 346: content = add_appendix_images(...)
SpliceAppendix ==
    /\ spc = "appendix"
    /\ content' = AddAppendixImages(content, ndata, nprev)
    /\ spc' = "done"
    /\ UNCHANGED <<tmpl, ai, nfigs, ndata, nprev, afterInt, preApp>>
    /\ UNCHANGED notSpliceVars

SpliceNext ==
    \/ SpliceIntegrate
    \/ SpliceFigures
    \/ SpliceAppendix

SpecSplice == SpliceInit /\ [][SpliceNext]_vars

(***************************************************************************)
(* Claims about the template splicer                                       *)
(***************************************************************************)

\* s holds a b with an e somewhere after it
HasPair(s, b, e) == \E i \in Positions(s, b), j \in Positions(s, e) : i < j

\* r is t with its first content region replaced by the text a on lines of its
\* own, both markers in place and the text in front unchanged; rest is what
\* follows the region in t, and rrest what follows it in r
FirstRegionReplaced(t, r, a) ==
    LET p == Min(Positions(t, "BC"))
        n == Len(a)
    IN  /\ Take(r, p) = Take(t, p)
        /\ SubSeq(r, p + 1, p + n + 2) = <<"nl">> \o a \o <<"nl">>
        /\ Len(r) >= p + n + 3
        /\ r[p + n + 3] = "EC"

AfterFirstRegion(t) ==
    LET p == Min(Positions(t, "BC"))
    IN  Drop(t, Min({j \in Positions(t, "EC") : j > p}))

\* C9: integrate_ai_content replaces only the text between the
\* '% BEGIN:content' and '% END:content' markers with the AI content (trimmed,
\* on lines of its own): both markers stay in place, all template text outside
\* the region is unchanged, and a template without that marker pair is
\* returned unchanged.  (The templates hold at most two content regions.)
C9_OnlyContentRegion ==
    (spc # "integrate" /\ ai # <<>>) =>
        IF ~HasPair(tmpl, "BC", "EC") THEN afterInt = tmpl
        ELSE LET a == Strip(ai)
                 rest == AfterFirstRegion(tmpl)
                 rrest == Drop(afterInt, Min(Positions(tmpl, "BC")) + Len(a) + 3)
             IN  /\ FirstRegionReplaced(tmpl, afterInt, a)
                 /\ IF ~HasPair(rest, "BC", "EC") THEN rrest = rest
                    ELSE /\ FirstRegionReplaced(rest, rrest, a)
                         /\ Drop(rrest, Min(Positions(rest, "BC")) + Len(a) + 3)
                                = AfterFirstRegion(rest)

\* C9 witness: AI content with whitespace around it was spliced into a
\* template that has text in front of, between and after its markers
C9_Witness ==
    /\ spc # "integrate"
    /\ ai # <<>>
    /\ Strip(ai) # ai
    /\ Strip(ai) # <<>>
    /\ HasPair(tmpl, "BC", "EC")
    /\ Min(Positions(tmpl, "BC")) > 1
    /\ AfterFirstRegion(tmpl) # <<>>
    /\ afterInt # tmpl

\* the rewritten appendix region
AppendixBlock ==
    <<"BA", "nl", "secApp", "nl">> \o AppendixText(nprev, ndata) \o <<"nl", "EA">>

\* the places of the text blk in s
Occurrences(s, blk) ==
    {k \in 1..Len(s) : k + Len(blk) - 1 <= Len(s)
                       /\ SubSeq(s, k, k + Len(blk) - 1) = blk}

\* the case of C10: AI content with an appendix marker pair (and no content
\* marker) was placed into the content region of a template that has its own
\* appendix region after it, and there is an image
C10_Case ==
    /\ spc = "done"
    /\ ai # <<>>
    /\ HasPair(Strip(ai), "BA", "EA")
    /\ Positions(ai, "BC") \cup Positions(ai, "EC") = {}
    /\ HasPair(tmpl, "BC", "EC")
    /\ HasPair(AfterFirstRegion(tmpl), "BA", "EA")
    /\ ndata + nprev >= 1

\* C10: when the AI content placed into the content region itself contains a
\* '% BEGIN:appendix' ... '% END:appendix' pair and at least one data-sheet or
\* preview image exists, add_appendix_images rewrites that span inside the AI
\* content in addition to the template's own appendix region.
C10_AiAppendixRewritten ==
    C10_Case =>
        LET blocks == Occurrences(content, AppendixBlock)
            bc == Min(Positions(content, "BC"))
        IN  /\ Cardinality(blocks) >= 2
            \* one rewritten span lies inside the content region ...
            /\ \E k \in blocks :
                  /\ bc < k
                  /\ \E j \in Positions(content, "EC") :
                        /\ k + Len(AppendixBlock) - 1 < j
                        \* ... and the template's own lies after its END marker
                        /\ \E m \in blocks : j < m
            \* what stood between the AI content's markers is gone
            /\ \A i \in Positions(content, "BA") : i \in blocks

\* C10 witness: such a generation, with figures inserted as well
C10_Witness ==
    /\ C10_Case
    /\ nfigs > 0
    /\ Cardinality(Occurrences(content, AppendixBlock)) >= 2

\* the place of the k-th tok of s
NthPosition(s, tok, k) ==
    CHOOSE i \in Positions(s, tok) :
        Cardinality({j \in Positions(s, tok) : j <= i}) = k

\* the case of C25: figures were inserted into a content with a table
C25_Case ==
    /\ spc \in {"appendix", "done"}
    /\ nfigs > 0
    /\ Positions(afterInt, "ET") # {}

\* C25: when the content has at least one table, add_figures_to_content
\* places the i-th figure directly after the end of the i-th table, places all
\* surplus figures after the last table when there are more figures than
\* tables, leaves later tables without a figure when there are fewer, and
\* every figure appears exactly once in the result, in its original order.
C25_FiguresAfterTables ==
    C25_Case =>
        LET figs == SubSeq(FigNames, 1, nfigs)
            T == Cardinality(Positions(afterInt, "ET"))
            isFig(t) == t \in Range(FigNames)
            place(k) == NthPosition(preApp, "ET", k)
            \* the text between the k-th table's end and the next table's end
            upto(k) == IF k < T THEN place(k + 1) - 1 ELSE Len(preApp)
        IN  /\ Cardinality(Positions(preApp, "ET")) = T
            \* every figure once, in the original order
            /\ SelectSeq(preApp, isFig) = figs
            \* the i-th figure directly after the i-th table
            /\ \A k \in 1..T :
                  k <= nfigs =>
                      SubSeq(preApp, place(k) + 1, place(k) + 3)
                          = <<"nl", "nl", figs[k]>>
            \* the surplus after the last table, one after the other
            /\ nfigs > T =>
                  SubSeq(preApp, place(T) + 1, place(T) + 3 * (nfigs - T + 1) + 1)
                      = <<"nl", "nl">> \o JoinFigs(SubSeq(figs, T, nfigs)) \o <<"nl">>
            \* one figure at most after a table that is not the last
            /\ \A k \in 1..(T - 1) :
                  Cardinality({i \in (place(k) + 1)..upto(k) : isFig(preApp[i])})
                      = (IF k <= nfigs THEN 1 ELSE 0)
            \* the text without the figures' lines is the content
            /\ SelectSeq(preApp, LAMBDA t : ~isFig(t) /\ t # "nl")
                   = SelectSeq(afterInt, LAMBDA t : t # "nl")

\* C25 witness: two figures went into a content with one table, and one
\* figure into a content with more tables than that
C25_Witness ==
    /\ C25_Case
    /\ \/ nfigs = 2 /\ Cardinality(Positions(afterInt, "ET")) = 1
       \/ nfigs = 1 /\ Cardinality(Positions(afterInt, "ET")) >= 2
    /\ preApp # afterInt

(***************************************************************************)
(* Template processor (TemplateProcessor)                                  *)
(*                                                                         *)
(* Further tokens: "def:<var>" is the text \newcommand{\<var>}{ that opens *)
(* the definition of <var>, "{" and "}" are braces, "bs" a backslash, "$", *)
(* "&", "%", "#", "_" these characters, "cmd" a LaTeX command whose first  *)
(* letter is no escape of a re.sub template (\section), "cmdt" one whose   *)
(* first letter is (\textbf: a tab and "extbf").                           *)
(***************************************************************************)
\* VARIABLE_MAP, lines 16-29, in its order; open is the text the pattern of
\* line 73 starts with
VARIABLE_MAP ==
    << [key |-> "experiment_name", var |-> "experiName", open |-> "def:experiName"],
       [key |-> "supervisor",      var |-> "supervisor", open |-> "def:supervisor"],
       [key |-> "name",            var |-> "name",       open |-> "def:name"],
       [key |-> "student_id",      var |-> "studentNum", open |-> "def:studentNum"],
       [key |-> "class_num",       var |-> "class",      open |-> "def:class"],
       [key |-> "group_num",       var |-> "group",      open |-> "def:group"],
       [key |-> "seat_num",        var |-> "seat",       open |-> "def:seat"],
       [key |-> "year",            var |-> "dateYear",   open |-> "def:dateYear"],
       [key |-> "month",           var |-> "dateMonth",  open |-> "def:dateMonth"],
       [key |-> "day",             var |-> "dateDay",    open |-> "def:dateDay"],
       [key |-> "room",            var |-> "room",       open |-> "def:room"],
       [key |-> "is_makeup",       var |-> "others",     open |-> "def:others"] >>

\* the keys the data dicts of the model hold or leave out
DataKeys == {"name", "student_id", "is_makeup"}

\* the two values run_generation_task gives is_makeup (app.py, line 331):
\* $\square$\hspace{-1em}$\surd$ and $\square$
MakeupValues ==
    { <<"$", "cmd", "$", "cmd", "{", "txt", "}", "$", "cmd", "$">>,
      <<"$", "cmd", "$">> }

\* the values of the other keys
TextValues ==
    { <<"txt">>,
      <<"txt", "&", "txt", "_">>,
      <<"txt", "&", "bs", "&", "%">>,
      <<"bs", "txt", "&">>,
      <<"txt", "}", "txt">>,
      <<>> }

ValuesOf(key) == IF key = "is_makeup" THEN MakeupValues ELSE TextValues

DataDicts ==
    UNION { {d \in [K -> MakeupValues \cup TextValues] :
                \A k \in K : d[k] \in ValuesOf(k)} : K \in SUBSET DataKeys }

\* data['sections']: absent, or the (name, content) items of the dict
SectionDicts ==
    { [given |-> FALSE, items |-> <<>>],
      [given |-> TRUE, items |-> <<>>],
      [given |-> TRUE, items |-> <<[name |-> "content", text |-> <<"txt">>]>>],
      [given |-> TRUE, items |-> <<[name |-> "content", text |-> <<"cmdt", "txt">>]>>],
      [given |-> TRUE, items |-> <<[name |-> "content", text |-> <<"cmd", "txt">>]>>],
      [given |-> TRUE, items |-> <<[name |-> "summary", text |-> <<"txt">>]>>],
      [given |-> TRUE, items |-> <<[name |-> "appendix", text |-> <<"txt">>],
                                   [name |-> "content", text |-> <<"txt", "txt">>]>>] }

\* the template files
TemplateTexts ==
    { <<>>,
      <<"txt", "def:name", "txt", "}", "nl", "def:studentNum", "}", "def:others",
        "$", "cmd", "$", "}", "def:experiName", "txt", "}", "nl", "BC", "txt", "EC",
        "BA", "EA">>,
      <<"def:name", "}", "txt", "def:name", "txt", "txt", "}", "def:title", "txt", "}",
        "cmd", "{", "txt", "}", "BC", "nl", "EC">>,
      <<"cmd", "{", "txt", "}", "def:experiName", "txt", "}", "txt">>,
      <<"def:studentNum", "txt", "}", "txt", "}", "def:name", "nl", "}", "BA", "txt",
        "EA">>,
      <<"txt", "def:others", "txt">> }

\* value.startswith('$') or value.startswith('\\')
StartsAsLatex(text) == text # <<>> /\ Head(text) \in {"$", "bs", "cmd", "cmdt"}

\* escaped in text, line 98: the character stands behind a backslash somewhere
HasEscaped(text, c) ==
    \E i \in 1..(Len(text) - 1) : text[i] = "bs" /\ text[i + 1] = c

\* text.replace(char, escaped)
RECURSIVE ReplaceChar(_, _)
ReplaceChar(text, c) ==
    IF text = <<>> THEN <<>>
    ELSE (IF Head(text) = c THEN <<"bs", c>> ELSE <<Head(text)>>)
             \o ReplaceChar(Tail(text), c)

\* the loop of lines 96-99 from its k-th character on
RECURSIVE EscapeFrom(_, _, _)
EscapeFrom(text, chars, k) ==
    IF k > Len(chars) THEN text
    ELSE EscapeFrom(IF HasEscaped(text, chars[k]) THEN text
                    ELSE ReplaceChar(text, chars[k]),
                    chars, k + 1)

\* _escape_latex, lines 82-101
EscapeLatex(text) ==
    IF StartsAsLatex(text) THEN text
    ELSE EscapeFrom(text, <<"&", "%", "#", "_">>, 1)

\* lines 66-69: the value that is put into the definition
Rendered(value) == IF StartsAsLatex(value) THEN value ELSE EscapeLatex(value)

\* a greedy pattern .* in place of [^}]*: the value goes up to the last brace
ReplaceValuesGreedy(s, open, value) ==
    IF Positions(s, open) = {} THEN s
    ELSE LET i == Min(Positions(s, open))
             E == {j \in Positions(s, "}") : j > i}
         IN  IF E = {} THEN s
             ELSE Take(s, i) \o value \o <<"}">>
                      \o Drop(s, CHOOSE j \in E : \A k \in E : k <= j)

\* re.sub(r'(\\newcommand{\\var}{)[^}]*(})', r'\g<1>value\g<2>', content),
\* lines 73-74: in every definition of var, what stands up to the next closing
\* brace is replaced by value
RECURSIVE ReplaceValues(_, _, _)
ReplaceValues(s, open, value) ==
    IF Positions(s, open) = {} THEN s
    ELSE LET i == Min(Positions(s, open))
             E == {j \in Positions(s, "}") : j > i}
         IN  IF E = {} THEN s
             ELSE Take(s, i) \o value \o <<"}">>
                      \o ReplaceValues(Drop(s, Min(E)), open, value)

\* the loop of lines 64-74 from entry k of VARIABLE_MAP on
RECURSIVE PlaceholdersFrom(_, _, _)
PlaceholdersFrom(c, data, k) ==
    IF k > Len(VARIABLE_MAP) THEN c
    ELSE PlaceholdersFrom(
             IF VARIABLE_MAP[k].key \in DOMAIN data
             THEN ReplaceValues(c, VARIABLE_MAP[k].open,
                                Rendered(data[VARIABLE_MAP[k].key]))
             ELSE c,
             data, k + 1)

\* the marker lines % BEGIN:<name> and % END:<name> of a section
BeginOf(name) ==
    CASE name = "content" -> "BC" [] name = "appendix" -> "BA" [] OTHER -> "B:other"

EndOf(name) ==
    CASE name = "content" -> "EC" [] name = "appendix" -> "EA" [] OTHER -> "E:other"

\* line 108: the section content is part of the replacement template of
\* re.sub, which reads a backslash and the letter after it as an escape
BadEscape(text) == Positions(text, "cmd") # {}

RECURSIVE TemplateExpanded(_)
TemplateExpanded(text) ==
    IF text = <<>> THEN <<>>
    ELSE (IF Head(text) = "cmdt" THEN <<"sp", "txt">> ELSE <<Head(text)>>)
             \o TemplateExpanded(Tail(text))

\* _replace_sections, lines 103-111, from item k on: the error re.sub raises,
\* or the content
RECURSIVE SectionsFrom(_, _, _)
SectionsFrom(c, items, k) ==
    IF k > Len(items) THEN [raised |-> "none", content |-> c]
    ELSE IF BadEscape(items[k].text) THEN [raised |-> "re.error", content |-> <<>>]
    ELSE SectionsFrom(ReplaceRegions(c, BeginOf(items[k].name), EndOf(items[k].name),
                                     TemplateExpanded(items[k].text)),
                      items, k + 1)

\* process, lines 48-80
Process(template_content, data, sections) ==
    IF template_content = <<>> THEN [raised |-> "ValueError", content |-> <<>>]
    ELSE LET c == PlaceholdersFrom(template_content, data, 1)
         IN  IF sections.given THEN SectionsFrom(c, sections.items, 1)
             ELSE [raised |-> "none", content |-> c]

ProcInit ==
    /\ NotProcIdle
    /\ tpc = "new"
    /\ tfile \in [exists : BOOLEAN, text : TemplateTexts]
    /\ ~tfile.exists => tfile.text = <<>>
    /\ tcontent = <<>>
    /\ tdata \in DataDicts
    /\ tsections \in SectionDicts
    /\ tret = NoProcessReturn

\* __init__ and _load_template, lines 31-46
LoadTemplate ==
    /\ tpc = "new"
    /\ tcontent' = IF tfile.exists THEN tfile.text ELSE <<>>
    /\ tpc' = "ready"
    /\ UNCHANGED <<tfile, tdata, tsections, tret>>
    /\ UNCHANGED notProcVars

\* processor.process(data)
ProcessCall ==
    /\ tpc = "ready"
    /\ tret' = Process(tcontent, tdata, tsections)
    /\ tpc' = "done"
    /\ UNCHANGED <<tfile, tcontent, tdata, tsections>>
    /\ UNCHANGED notProcVars

ProcNext ==
    \/ LoadTemplate
    \/ ProcessCall

SpecProcess == ProcInit /\ [][ProcNext]_vars

(***************************************************************************)
(* Claims about the template processor                                     *)
(***************************************************************************)

\* the entry of VARIABLE_MAP whose definition opens with token t, 0 if none
EntryOf(t) ==
    LET hits == {k \in 1..Len(VARIABLE_MAP) : VARIABLE_MAP[k].open = t}
    IN  IF hits = {} THEN 0 ELSE Min(hits)

\* the template t with, in one pass from left to right, the value of every
\* definition of a key of data replaced by the rendered value of the key, and
\* every other token kept
RECURSIVE Substituted(_, _)
Substituted(t, data) ==
    IF t = <<>> THEN <<>>
    ELSE LET k == EntryOf(Head(t))
             E == Positions(Tail(t), "}")
         IN  IF k # 0 /\ VARIABLE_MAP[k].key \in DOMAIN data /\ E # {}
             THEN <<Head(t)>> \o Rendered(data[VARIABLE_MAP[k].key]) \o <<"}">>
                      \o Substituted(Drop(Tail(t), Min(E)), data)
             ELSE <<Head(t)>> \o Substituted(Tail(t), data)

\* s without what stands between the markers of the regions of the given names
RECURSIVE WithoutRegions(_, _, _)
WithoutRegions(s, items, k) ==
    IF k > Len(items) THEN s
    ELSE WithoutRegions(ReplaceRegions(s, BeginOf(items[k].name),
                                       EndOf(items[k].name), <<>>),
                        items, k + 1)

SpecialChars == {"&", "%", "#", "_"}

\* text with a backslash put in front of every special character that has
\* none (prev: the token in front of text)
RECURSIVE EscapedOnce(_, _)
EscapedOnce(text, prev) ==
    IF text = <<>> THEN <<>>
    ELSE (IF Head(text) \in SpecialChars /\ prev # "bs"
          THEN <<"bs", Head(text)>> ELSE <<Head(text)>>)
             \o EscapedOnce(Tail(text), Head(text))

\* the keys of C27: in the data, with a value that does not start with '$' or
\* a backslash, and with a definition in the template that process rewrites
C27_Keys ==
    {k \in 1..Len(VARIABLE_MAP) :
        /\ VARIABLE_MAP[k].key \in DOMAIN tdata
        /\ ~StartsAsLatex(tdata[VARIABLE_MAP[k].key])
        /\ \E i \in Positions(tfile.text, VARIABLE_MAP[k].open) :
              \E j \in Positions(tfile.text, "}") : i < j}

\* C27: every &, %, # and _ in a placeholder value that does not start with
\* '$' or a backslash is backslash-escaped in the spliced output, and a
\* character that is already escaped is not escaped a second time.
C27_Original ==
    (tpc = "done" /\ tret.raised = "none" /\ ~tsections.given) =>
        \A k \in C27_Keys :
            LET value == tdata[VARIABLE_MAP[k].key]
                out == EscapedOnce(value, "none")
                p == Min(Positions(tret.content, VARIABLE_MAP[k].open))
            IN  /\ Len(tret.content) >= p + Len(out)
                /\ SubSeq(tret.content, p + 1, p + Len(out)) = out

\* C27 for the values that hold no escaped special character
C27_WhenNoneEscaped ==
    (\A k \in DOMAIN tdata : \A c \in SpecialChars : ~HasEscaped(tdata[k], c))
        => C27_Original

\* the second half of C27 alone: no special character of the spliced value
\* has more backslashes in front of it than in the value or one more
C27_NotTwice ==
    (tpc = "done" /\ tret.raised = "none" /\ ~tsections.given) =>
        \A k \in C27_Keys :
            LET value == tdata[VARIABLE_MAP[k].key]
                p == Min(Positions(tret.content, VARIABLE_MAP[k].open))
                out == SubSeq(tret.content, p + 1,
                              Min({j \in Positions(tret.content, "}") : j > p}) - 1)
                plain(text) == SelectSeq(text, LAMBDA t : t # "bs")
            IN  /\ plain(out) = Take(plain(value), Len(plain(out)))
                /\ \A i \in 3..Len(out) :
                      (out[i] \in SpecialChars /\ out[i - 1] = "bs")
                          => out[i - 2] # "bs"

(***************************************************************************)
(* Plotting-code extractor (extract_python_code_from_ai_response) and the  *)
(* script the runner makes of the extracted code                           *)
(*                                                                         *)
(* A response is a sequence of tokens of the kind Tok makes: "fence" is a  *)
(* ``` mark, "python" the word python, "tag" another word behind a fence   *)
(* (```py), "nl" a newline, "txt" prose, "plt" a call that starts with     *)
(* plt., "mpl" the word matplotlib, "import" the word import with the      *)
(* blank behind it, "arr" np.array, "dataeq" the text 'data =', "dataus"   *)
(* the text 'data_', and Tok("stmt", "", k) the k-th piece's own statement.*)
(***************************************************************************)
\* number of pieces (code blocks, prose) a response is made of
MaxPieces == 2

XT(op) == Tok(op, "", 0)

\* the own statement of piece k
Blk(k) == Tok("stmt", "", k)

\* the kinds of pieces: prose; a ```python block that plots; a ``` block of
\* data; a block with two arrays and a plot; a block with one array and a plot;
\* a block with data_ and import matplotlib; a block with neither; a ```py
\* block that plots; plotting code without fences behind the word python; a
\* block that is not closed; prose that names matplotlib
PieceKinds ==
    {"prose", "plot", "data", "mixed", "onearr", "mplonly", "other", "tagged",
     "bare", "open", "mplword"}

Piece(kind, k) ==
    CASE kind = "prose"   -> <<XT("txt"), XT("nl")>>
      [] kind = "plot"    -> <<XT("fence"), XT("python"), XT("nl"), Blk(k), XT("plt"),
                               Show, XT("nl"), XT("fence"), XT("nl")>>
      [] kind = "data"    -> <<XT("fence"), XT("nl"), Blk(k), XT("arr"), XT("dataeq"),
                               XT("nl"), XT("fence"), XT("nl")>>
      [] kind = "mixed"   -> <<XT("fence"), XT("python"), XT("nl"), Blk(k), XT("arr"),
                               XT("arr"), XT("plt"), XT("nl"), XT("fence"), XT("nl")>>
      [] kind = "onearr"  -> <<XT("fence"), XT("python"), XT("nl"), Blk(k), XT("arr"),
                               XT("plt"), XT("nl"), XT("fence"), XT("nl")>>
      [] kind = "mplonly" -> <<XT("fence"), XT("python"), XT("nl"), Blk(k), XT("dataus"),
                               XT("import"), XT("mpl"), XT("nl"), XT("fence"), XT("nl")>>
      [] kind = "other"   -> <<XT("fence"), XT("python"), XT("nl"), Blk(k), XT("nl"),
                               XT("fence"), XT("nl")>>
      [] kind = "tagged"  -> <<XT("fence"), XT("tag"), XT("nl"), Blk(k), XT("plt"),
                               XT("nl"), XT("fence"), XT("nl")>>
      [] kind = "bare"    -> <<XT("python"), XT("nl"), Blk(k), XT("plt"), XT("nl")>>
      [] kind = "open"    -> <<XT("fence"), XT("python"), XT("nl"), Blk(k), XT("plt")>>
      [] kind = "mplword" -> <<XT("txt"), XT("mpl"), XT("nl")>>

\* the response made of the pieces of the given kinds
RECURSIVE ResponseFrom(_, _)
ResponseFrom(kinds, k) ==
    IF k > Len(kinds) THEN <<>>
    ELSE Piece(kinds[k], k) \o ResponseFrom(kinds, k + 1)

Responses ==
    {ResponseFrom(kinds, 1) : kinds \in UNION {[1..n -> PieceKinds] : n \in 0..MaxPieces}}

\* 'x' in code, for the text x of a token
HasOp(code, op) == \E i \in 1..Len(code) : code[i].op = op

\* code.count('np.array')
CountOp(code, op) == Cardinality({i \in 1..Len(code) : code[i].op = op})

\* 'plt.' in code: plt.show() holds it too
HasPlt(code) == HasOp(code, "plt") \/ HasOp(code, "show")

\* 'import matplotlib' in response
HasImportMatplotlib(code) ==
    \E i \in 1..(Len(code) - 1) : code[i].op = "import" /\ code[i + 1].op = "mpl"

\* the pattern ```(?:python)?\n at place i: the place its group starts at, 0 when
\* it does not match there
BodyStart(s, i) ==
    IF s[i].op # "fence" THEN 0
    ELSE IF i + 1 <= Len(s) /\ s[i + 1].op = "nl" THEN i + 2
    ELSE IF i + 2 <= Len(s) /\ s[i + 1].op = "python" /\ s[i + 2].op = "nl" THEN i + 3
    ELSE 0

\* re.findall(r'```(?:python)?\n(.*?)```', response, re.DOTALL | re.IGNORECASE),
\* line 160
RECURSIVE FindAllBlocks(_)
FindAllBlocks(s) ==
    LET closing(b) == {j \in b..Len(s) : s[j].op = "fence"}
        starts == {i \in 1..Len(s) : BodyStart(s, i) # 0 /\ closing(BodyStart(s, i)) # {}}
    IN  IF starts = {} THEN <<>>
        ELSE LET i == Min(starts)
                 b == BodyStart(s, i)
                 j == Min(closing(b))
             IN  <<SubSeq(s, b, j - 1)>> \o FindAllBlocks(Drop(s, j))

\* response.strip()
RECURSIVE StripNl(_)
StripNl(s) ==
    IF s # <<>> /\ Head(s).op = "nl" THEN StripNl(Tail(s))
    ELSE IF s # <<>> /\ s[Len(s)].op = "nl" THEN StripNl(Take(s, Len(s) - 1))
    ELSE s

\* s without the newlines it starts with
RECURSIVE AfterNewlines(_)
AfterNewlines(s) ==
    IF s # <<>> /\ Head(s).op = "nl" THEN AfterNewlines(Tail(s)) ELSE s

\* re.sub(r'^python\s*\n', '', response.strip(), flags=re.IGNORECASE), line 167
WithoutPythonHead(s) ==
    LET t == StripNl(s)
    IN  IF Len(t) >= 2 /\ t[1].op = "python" /\ t[2].op = "nl"
        THEN AfterNewlines(Tail(t))
        ELSE t

\* lines 160-168: the fenced blocks, or the whole response as one block when
\* there is none and the response holds a mark of plotting code
CodeBlocks(response) ==
    IF FindAllBlocks(response) # <<>> THEN FindAllBlocks(response)
    ELSE IF HasImportMatplotlib(response) \/ HasPlt(response)
         THEN <<WithoutPythonHead(response)>>
         ELSE <<>>

\* lines 180-182: the block goes to data_code_list
IsDataCode(code) ==
    /\ HasOp(code, "arr") \/ HasOp(code, "dataeq") \/ HasOp(code, "dataus")
    /\ ~HasPlt(code) \/ CountOp(code, "arr") > 1

\* lines 185-186: the block goes to plot_code_list
IsPlotCode(code) == HasPlt(code) \/ HasOp(code, "mpl")

\* '\n\n'.join(list) if list else None, lines 189-190
JoinedOrNone(list) ==
    IF list = <<>> THEN NoCode
    ELSE [none |-> FALSE, code |-> Join(list, <<XT("nl"), XT("nl")>>)]

\* extract_python_code_from_ai_response, lines 146-191
ExtractPythonCode(response) ==
    IF response = <<>> \/ CodeBlocks(response) = <<>>
    THEN [data |-> NoCode, plot |-> NoCode]
    ELSE [data |-> JoinedOrNone(SelectSeq(CodeBlocks(response), IsDataCode)),
          plot |-> JoinedOrNone(SelectSeq(CodeBlocks(response), IsPlotCode))]

ExtrInit ==
    /\ NotExtrIdle
    /\ xpc = "new"
    /\ xresp \in Responses
    /\ xblocks = <<>>
    /\ xret = [data |-> NoCode, plot |-> NoCode]
    /\ xscript = <<>>

\* run_generation_task, line 294: the code is extracted from the plot response
Extract ==
    /\ xpc = "new"
    /\ xblocks' = IF xresp = <<>> THEN <<>> ELSE CodeBlocks(xresp)
    /\ xret' = ExtractPythonCode(xresp)
    /\ xpc' = "extracted"
    /\ UNCHANGED <<xresp, xscript>>
    /\ UNCHANGED notExtrVars

\* run_generation_task, lines 297-303: if python_plot_code, the runner is
\* called with the plot code and the data code and writes its script
\* (execute_plotting_code, lines 40-45)
Synthesize ==
    /\ xpc = "extracted"
    /\ xscript' = IF ~xret.plot.none /\ xret.plot.code # <<>>
                  THEN PreprocessCode(xret.plot.code,
                                      IF xret.data.none THEN <<>> ELSE xret.data.code)
                  ELSE <<>>
    /\ xpc' = "done"
    /\ UNCHANGED <<xresp, xblocks, xret>>
    /\ UNCHANGED notExtrVars

ExtrNext ==
    \/ Extract
    \/ Synthesize

SpecExtract == ExtrInit /\ [][ExtrNext]_vars

(***************************************************************************)
(* Claims about the plotting-code extractor                                *)
(***************************************************************************)

\* the fenced code blocks of a text: the fences pair up from the left, the
\* first line of a pair (the fence and what stands behind it) opens the block,
\* and what stands between that line and the closing fence is the block
RECURSIVE FencedCodeBlocks(_)
FencedCodeBlocks(s) ==
    LET F == {i \in 1..Len(s) : s[i].op = "fence"}
    IN  IF Cardinality(F) < 2 THEN <<>>
        ELSE LET i == Min(F)
                 j == Min(F \ {i})
                 N == {n \in (i + 1)..(j - 1) : s[n].op = "nl"}
                 body == IF N = {} THEN <<>> ELSE SubSeq(s, Min(N) + 1, j - 1)
             IN  <<body>> \o FencedCodeBlocks(Drop(s, j))

\* C12: extract_python_code_from_ai_response returns as plot code the join, in
\* their original order, of exactly those fenced code blocks that contain
\* 'plt.' or 'matplotlib', and it returns (None, None) when the response is
\* empty or has neither a fenced block nor a plotting marker.
C12_Original ==
    xpc # "new" =>
        LET blocks == FencedCodeBlocks(xresp)
            plots == SelectSeq(blocks, LAMBDA b : HasPlt(b) \/ HasOp(b, "mpl"))
        IN  /\ xresp = <<>> => xret.data.none /\ xret.plot.none
            /\ (blocks = <<>> /\ ~HasPlt(xresp) /\ ~HasOp(xresp, "mpl"))
                  => xret.data.none /\ xret.plot.none
            /\ blocks # <<>> =>
                  IF plots = <<>> THEN xret.plot.none
                  ELSE /\ ~xret.plot.none
                       /\ xret.plot.code = Join(plots, <<XT("nl"), XT("nl")>>)

\* the number of times the own statement of piece k stands in code
Copies(code, k) == Cardinality({i \in 1..Len(code) : code[i] = Blk(k)})

\* the extracted block that holds the own statement of piece k, 0 if none
BlockOf(k) ==
    LET hits == {b \in 1..Len(xblocks) : Copies(xblocks[b], k) > 0}
    IN  IF hits = {} THEN 0 ELSE Min(hits)

\* C13: each extracted code block is classified as data code or as plot code,
\* never as both, so no block appears twice in the script that the runner
\* synthesizes from the data code and the plot code.
C13_Original ==
    xpc = "done" =>
        /\ \A b \in 1..Len(xblocks) : ~(IsDataCode(xblocks[b]) /\ IsPlotCode(xblocks[b]))
        /\ \A k \in 1..MaxPieces : BlockOf(k) # 0 => Copies(xscript, k) <= 1

====
